---- MODULE Spec2Model ----
(***************************************************************************)
(* A model of the forward-computation core of TransformerLens:             *)
(*   - past_key_value_caching.py : the per-layer key/value cache           *)
(*   - components/attention.py   : Attention.forward and its helpers       *)
(*   - components/transformer_block.py : TransformerBlock                  *)
(*   - components/mlp.py         : MLP construction and its hook points    *)
(*                                                                         *)
(* Tensors are abstracted along the axes the code branches on or indexes:  *)
(* the position axis is a sequence, one batch element and one head are     *)
(* followed, and the content of a position is a token id.  Where a claim   *)
(* is about them, the channels of a position (rotary), the storage a       *)
(* tensor shares (hooked copies) and the statements of one pass            *)
(* (interleaved passes on a cache entry) are followed as well.             *)
(***************************************************************************)
EXTENDS Integers, Sequences, FiniteSets, TLC

\* ------------------------------------------------------------------ bounds

\* Most positions a cache entry may hold in the cache specification.
MaxPos == 3

\* Layers of the cache (cfg.n_layers), as the index set of cache.entries.
Layers == {1, 2}

\* Contents of an input position (one residual-stream position).
Tok == {1, 2}

\* The key and the value projected from an input position; the two differ, so
\* that keys and values cannot be taken for one another.
KeyOf(t) == t
ValueOf(t) == t + 6

\* ------------------------------------------------------------------ state

VARIABLES
    entries,    \* HookedTransformerKeyValueCache.entries: layer -> entry
    ret,        \* what the last append call returned: <<keys, values>>
    call,       \* the last append call: the entry as it was, and the arguments
    fed,        \* per layer, the chunks appended while the entry was unfrozen
    frozenAt,   \* the stored histories at the time of the last freeze()
    acfg,       \* the cfg an Attention module was constructed with
    attn,       \* the Attention instance: its attributes that forward writes
    kv,         \* the cache entry handed to Attention.forward
    last,       \* the last Attention.forward call: its arguments and outcome
    gen,        \* the tokens fed one at a time through kv since it was created
    bcfg,       \* the cfg a TransformerBlock is constructed with
    block,      \* the TransformerBlock: whether constructed, and its attributes
    bres,       \* the last TransformerBlock.forward call and its outcome
    bias_call,  \* the last Attention.create_alibi_bias call and what it returned
    get_call,   \* the last attn.get_cached_alibi call and its outcome
    shared,     \* a cache entry that several forward passes use at once
    passes,     \* per pass on the shared entry: its position and its locals
    fm_call,    \* the last FactoredMatrix.__getitem__ call and its outcome
    rcfg,       \* the cfg of an Attention with rotary positional embeddings
    rot_call,   \* the last rotation computed, channel by channel
    obs,        \* the last TransformerBlock.forward call with an observer
    hk          \* the observed Attention.forward calls on the entry kv

cacheVars == <<entries, ret, call, fed, frozenAt>>

attnVars == <<acfg, attn, kv, last, gen>>

blockVars == <<bcfg, block, bres>>

alibiVars == <<bias_call, get_call>>

extraVars == <<shared, passes, fm_call, rcfg, rot_call, obs, hk>>

vars == <<entries, ret, call, fed, frozenAt, acfg, attn, kv, last, gen,
          bcfg, block, bres, bias_call, get_call, shared, passes, fm_call,
          rcfg, rot_call, obs, hk>>

\* ------------------------------------------------- past_key_value_caching

\* torch.cat([a, b], dim=1): concatenation along the position axis.
cat(a, b) == a \o b

\* torch.empty((batch_size, 0, n_heads, d_head)): no positions.
init_cache_entry ==
    [past_keys |-> <<>>, past_values |-> <<>>, frozen |-> FALSE]

\* A bug a reader could plausibly write: the frozen flag is consulted for
\* the return value rather than for the store.
append_persists_when_frozen(self, new_keys, new_values) ==
    LET updated_keys == cat(self.past_keys, new_keys)
        updated_values == cat(self.past_values, new_values)
    IN  [self |-> [self EXCEPT !.past_keys = updated_keys,
                               !.past_values = updated_values],
         ret |-> <<updated_keys, updated_values>>]

\* A bug a reader could plausibly write: the new chunk is put in front.
append_prepends(self, new_keys, new_values) ==
    LET updated_keys == cat(new_keys, self.past_keys)
        updated_values == cat(new_values, self.past_values)
    IN  [self |-> IF ~self.frozen
                  THEN [self EXCEPT !.past_keys = updated_keys,
                                    !.past_values = updated_values]
                  ELSE self,
         ret |-> <<updated_keys, updated_values>>]

\* A bug a reader could plausibly write: the concatenation is returned and
\* never stored.
append_never_stores(self, new_keys, new_values) ==
    LET updated_keys == cat(self.past_keys, new_keys)
        updated_values == cat(self.past_values, new_values)
    IN  [self |-> self, ret |-> <<updated_keys, updated_values>>]

\* HookedTransformerKeyValueCacheEntry.append: the entry after the call and
\* the pair the call returns.
append(self, new_keys, new_values) ==
    LET updated_keys == cat(self.past_keys, new_keys)
        updated_values == cat(self.past_values, new_values)
    IN  [self |-> IF ~self.frozen
                  THEN [self EXCEPT !.past_keys = updated_keys,
                                    !.past_values = updated_values]
                  ELSE self,
         ret |-> <<updated_keys, updated_values>>]

\* HookedTransformerKeyValueCache.init_cache: one fresh entry per layer.
init_cache == [i \in Layers |-> init_cache_entry]

\* A bug a reader could plausibly write: only the first entry is frozen.
freeze_first_only(es) ==
    [i \in Layers |-> IF i = 1 THEN [es[i] EXCEPT !.frozen = TRUE] ELSE es[i]]

\* HookedTransformerKeyValueCache.freeze
freeze(es) == [i \in Layers |-> [es[i] EXCEPT !.frozen = TRUE]]

\* HookedTransformerKeyValueCache.unfreeze
unfreeze(es) == [i \in Layers |-> [es[i] EXCEPT !.frozen = FALSE]]

\* The stored histories of a cache, without the flags.
Histories(es) ==
    [i \in Layers |-> <<es[i].past_keys, es[i].past_values>>]

\* ------------------------------- the steps of one pass over a cache entry

\* Attention.forward reads the stored length, then calls append; append
\* concatenates keys, concatenates values, tests the flag and stores keys,
\* stores values; the length assertion of apply_causal_mask comes last.  Each
\* is a separate statement, so that another pass over the same entry can run
\* between any two of them.

\* kv_cache_pos_offset = past_kv_cache_entry.past_keys.size(1)
read_offset(entry) == Len(entry.past_keys)

\* A bug a reader could plausibly write: the store is not guarded by the flag.
append_store_keys_unguarded(self, updated_keys) ==
    [self EXCEPT !.past_keys = updated_keys]

\* if not self.frozen: self.past_keys = updated_keys
append_store_keys(self, updated_keys) ==
    IF ~self.frozen THEN [self EXCEPT !.past_keys = updated_keys] ELSE self

\* A bug a reader could plausibly write: the second store repeats the first
\* one's field, so that the values never reach the entry.
append_store_values_into_keys(self, updated_values) ==
    IF ~self.frozen THEN [self EXCEPT !.past_keys = updated_values] ELSE self

\* (if not self.frozen:) self.past_values = updated_values
append_store_values(self, updated_values) ==
    IF ~self.frozen THEN [self EXCEPT !.past_values = updated_values] ELSE self

\* assert query_ctx_length + past_kv_pos_offset == key_ctx_length
length_assertion(query_ctx_length, past_kv_pos_offset, key_ctx_length) ==
    IF query_ctx_length + past_kv_pos_offset = key_ctx_length
    THEN "ok" ELSE "AssertionError"

\* The forward passes that use the shared entry at the same time.
Passes == {1, 2}

\* A pass that has not been called.
NoPass ==
    [pc |-> "idle", new_keys |-> <<>>, new_values |-> <<>>,
     kv_cache_pos_offset |-> 0, updated_keys |-> <<>>, updated_values |-> <<>>,
     status |-> "not called"]

\* The statements between reading the stored length and the end of the store.
InAppend(pc) == pc \in {"offset", "cat_keys", "cat_values", "stored_keys"}

\* The shared-entry part of the state when no entry is shared.
ShareIdle ==
    /\ shared = [entry |-> init_cache_entry, initial |-> init_cache_entry,
                 overlapped |-> FALSE]
    /\ passes = [p \in Passes |-> NoPass]

\* ------------------------------------------- the low-rank circuit views

\* A weight tensor, followed along its leading (non-matrix) dimensions: the
\* sizes of those dimensions and, per 0-based index tuple, the matrix there,
\* as <<name of the tensor, whether transposed, where in the tensor>>.
IndexTuples(dims) ==
    {j \in [1..Len(dims) -> 0..2] : \A d \in 1..Len(dims) : j[d] < dims[d]}

\* self.W_Q, self.W_K, self.W_V, self.W_O of an Attention with n_heads heads:
\* one matrix per head.
Weight_(name, n_heads) ==
    [dims |-> <<n_heads>>,
     at |-> [j \in IndexTuples(<<n_heads>>) |-> <<name, FALSE, j[1]>>]]

\* einops.rearrange(W_K, "head_index d_model d_head -> head_index d_head
\* d_model"): every head's matrix transposed.
transpose_heads(W) ==
    [dims |-> W.dims, at |-> [j \in DOMAIN W.at |-> <<W.at[j][1], ~W.at[j][2], W.at[j][3]>>]]

\* FactoredMatrix(A, B)
FactoredMatrix(A, B) == [A |-> A, B |-> B]

\* A bug a reader could plausibly write: the factors in the other order.
OV_factors_swapped(n_heads) ==
    FactoredMatrix(Weight_("W_O", n_heads), Weight_("W_V", n_heads))

\* Attention.OV
OV(n_heads) == FactoredMatrix(Weight_("W_V", n_heads), Weight_("W_O", n_heads))

\* Attention.QK
QK(n_heads) ==
    LET W_K_transpose == transpose_heads(Weight_("W_K", n_heads))
    IN  FactoredMatrix(Weight_("W_Q", n_heads), W_K_transpose)

\* The fixture of the FactoredMatrix tests: torch.rand(2,2,2,2,2) twice, three
\* leading dimensions of size 2.
sample_factored_matrix ==
    LET T(name) == [dims |-> <<2, 2, 2>>,
                    at |-> [j \in IndexTuples(<<2, 2, 2>>) |-> <<name, FALSE, j>>]]
    IN  FactoredMatrix(T("A"), T("B"))

\* An index item: an int k, or the full slice ":".
IntItem(k) == <<"int", k>>
Slice == <<"slice", 0>>

\* tensor[idx] over the leading dimensions: idx has at most one item per
\* leading dimension and missing items are full slices; an int item drops its
\* dimension, a slice keeps it.
tensor_out_of_range(t, idx) ==
    \E d \in 1..Len(idx) : idx[d][1] = "int" /\ idx[d][2] >= t.dims[d]

tensor_getitem(t, idx) ==
    LET n == Len(t.dims)
        item(d) == IF d <= Len(idx) THEN idx[d] ELSE Slice
        kept == SelectSeq([d \in 1..n |-> d], LAMBDA d : item(d)[1] = "slice")
        dims == [i \in 1..Len(kept) |-> t.dims[kept[i]]]
        rank(d) == Cardinality({e \in 1..d : item(e)[1] = "slice"})
        full(j) == [d \in 1..n |-> IF item(d)[1] = "int" THEN item(d)[2]
                                    ELSE j[rank(d)]]
    IN  [dims |-> dims, at |-> [j \in IndexTuples(dims) |-> t.at[full(j)]]]

\* FactoredMatrix.__getitem__(idx) for an index over the leading dimensions.
getitem(fm, idx) ==
    IF tensor_out_of_range(fm.A, idx) \/ tensor_out_of_range(fm.B, idx)
    THEN [status |-> "IndexError", fm |-> fm]
    ELSE [status |-> "ok",
          fm |-> FactoredMatrix(tensor_getitem(fm.A, idx),
                                tensor_getitem(fm.B, idx))]

\* No FactoredMatrix has been indexed.
NoGetItem ==
    [called |-> FALSE, view |-> "none", n_heads |-> 0, fm |-> OV(1),
     idx |-> <<>>, res |-> [status |-> "not called", fm |-> OV(1)]]

FactoredIdle == fm_call = NoGetItem

\* ------------------------------------------------------ Attention.__init__

\* cfg.n_ctx of the attention configurations that are modelled.
NCtx == 3

\* The configurations Attention is constructed with: attn_type is "global" or
\* "local" (any other value raises ValueError in __init__), and "local" has an
\* integer cfg.window_size (asserted in __init__).
AttnConfigs ==
    { [n_ctx |-> NCtx, attn_type |-> t, window_size |-> w,
       attention_dir |-> d, positional_embedding_type |-> p] :
        t \in {"global", "local"}, w \in 0..NCtx, d \in {"causal", "bidirectional"},
        p \in {"standard", "shortformer", "rotary", "alibi"} }

ValidAttnConfig(cfg) ==
    IF cfg.attn_type = "global" THEN cfg.window_size = 0 ELSE cfg.window_size >= 1

\* torch.tril(torch.ones((n, n)).bool()): True iff key column <= query row.
tril(n) == [r \in 1..n |-> [c \in 1..n |-> c <= r]]

\* torch.triu(M, diagonal): keeps the elements with column - row >= diagonal.
triu(M, diagonal) ==
    [r \in DOMAIN M |-> [c \in DOMAIN M[r] |-> M[r][c] /\ (c - r >= diagonal)]]

\* A bug a reader could plausibly write: the band is one position too wide.
mask_buffer_wide_band(cfg) ==
    IF cfg.attn_type = "global"
    THEN tril(cfg.n_ctx)
    ELSE triu(tril(cfg.n_ctx), 0 - cfg.window_size)

\* The buffer self.mask registered by Attention.__init__.
mask_buffer(cfg) ==
    IF cfg.attn_type = "global"
    THEN tril(cfg.n_ctx)
    ELSE triu(tril(cfg.n_ctx), 1 - cfg.window_size)

\* The attributes Attention.__init__ leaves on the instance that forward
\* reads and writes. __init__ never assigns cached_alibi.
AlibiUnset == [state |-> "no attribute", size |-> 0]
AlibiNone == [state |-> "None", size |-> 0]
AlibiBias(n) == [state |-> "bias", size |-> n]

attention_init == [cached_alibi |-> AlibiUnset]

\* ------------------------------------------------------ scores and softmax

\* An attention score: finite with a value, or the IGNORE buffer (-inf).
Fin(v) == <<TRUE, v>>
IGNORE == <<FALSE, 0>>
IsFin(s) == s[1]

\* An attention weight num/den; 0/0 is what softmax gives for a row of -inf.
Weight(num, den) == [num |-> num, den |-> den]
Zero == Weight(0, 1)
IsNaN(w) == w.den = 0

RECURSIVE SumSeq(_)
SumSeq(xs) == IF xs = <<>> THEN 0 ELSE Head(xs) + SumSeq(Tail(xs))

\* exp of a score, in units that keep it an integer: scores lie in
\* -n_ctx..1, so 2^(score + n_ctx) is a natural number, and exp(-inf) = 0.
Exp(cfg, s) == IF IsFin(s) THEN 2 ^ (s[2] + cfg.n_ctx) ELSE 0

\* F.softmax(attn_scores, dim=-1)
softmax(cfg, attn_scores) ==
    [a \in DOMAIN attn_scores |->
        LET e == [j \in DOMAIN attn_scores[a] |-> Exp(cfg, attn_scores[a][j])]
            den == SumSeq(e)
        IN  [j \in DOMAIN e |-> Weight(e[j], den)]]

\* A bug a reader could plausibly write: the NaN of a fully masked row is
\* left in the pattern.
nan_to_zero_omitted(pattern) == pattern

\* torch.where(torch.isnan(pattern), torch.zeros_like(pattern), pattern)
nan_to_zero(pattern) ==
    [a \in DOMAIN pattern |->
        [j \in DOMAIN pattern[a] |->
            IF IsNaN(pattern[a][j]) THEN Zero ELSE pattern[a][j]]]

\* ------------------------------------------------------ positional schemes

\* How a query or key position was rotated: not at all, with the row of the
\* sin/cos tables of an absolute position, or with the row that
\* utils.get_offset_position_ids selects (attention_mask given).
RotNone == [kind |-> "none", row |-> 0]
RotRow(p) == [kind |-> "table", row |-> p]
RotIds == [kind |-> "position_ids", row |-> 0]

\* A query/key position after projection: its content, not yet rotated.
Projected(x) == [a \in DOMAIN x |-> [tok |-> x[a], rot |-> RotNone]]

\* Attention.apply_rotary: position a (0-based) of x is rotated with row
\* past_kv_pos_offset + a of rotary_sin / rotary_cos.
apply_rotary(x, past_kv_pos_offset, attention_mask) ==
    [a \in DOMAIN x |->
        [x[a] EXCEPT !.rot = IF attention_mask = <<>>
                             THEN RotRow(past_kv_pos_offset + a - 1)
                             ELSE RotIds]]

Min(a, b) == IF a <= b THEN a ELSE b

Max(a, b) == IF a >= b THEN a ELSE b

\* Attention.create_alibi_slope: (rows - cols).clamp(max=0), with rows the
\* key index and cols the query index.
create_alibi_slope(n_ctx) ==
    [query \in 1..n_ctx |-> [key \in 1..n_ctx |-> Min(key - query, 0)]]

\* Attention.create_alibi_bias for the head that is followed, in units of
\* that head's multiplier (create_alibi_multipliers, a positive number).
create_alibi_bias(n_ctx) == create_alibi_slope(n_ctx)

\* Attention.get_cached_alibi: reads self.cached_alibi, which raises
\* AttributeError when the attribute was never assigned.
get_cached_alibi(self, key_ctx) ==
    IF self.cached_alibi.state = "no attribute"
    THEN [status |-> "AttributeError", self |-> self, alibi |-> <<>>]
    ELSE IF self.cached_alibi.state = "None" \/ key_ctx > self.cached_alibi.size
    THEN [status |-> "ok",
          self |-> [self EXCEPT !.cached_alibi = AlibiBias(key_ctx)],
          alibi |-> create_alibi_bias(key_ctx)]
    ELSE [status |-> "ok", self |-> self,
          alibi |-> create_alibi_bias(self.cached_alibi.size)]

\* The head counts n_heads for which start = 2 ** (-8 / n_heads) is a power
\* of two, so that every multiplier is a whole number of units of 2^-8.
HeadCounts == {1, 2, 4, 8}

\* Attention.create_alibi_multipliers, in units of 2^-8: start * start**index
\* for index 0..n_heads-1 is 2^(-(8/n_heads)(index+1)); head h is index h-1.
create_alibi_multipliers(n_heads) ==
    [h \in 1..n_heads |-> 2 ^ (8 - (8 \div n_heads) * h)]

\* A bug a reader could plausibly write: the einsum takes the slope with its
\* axes exchanged, which puts the bias above the diagonal.
create_alibi_bias_all_heads_transposed(n_heads, n_ctx) ==
    LET slope == create_alibi_slope(n_ctx)
        multipliers == create_alibi_multipliers(n_heads)
    IN  [k \in 1..n_heads |-> [i \in 1..n_ctx |-> [j \in 1..n_ctx |->
            slope[j][i] * multipliers[k]]]]

\* Attention.create_alibi_bias(n_heads, n_ctx) for all heads, in units of
\* 2^-8: torch.einsum("ij,k->kij", slope, multipliers).
create_alibi_bias_all_heads(n_heads, n_ctx) ==
    LET slope == create_alibi_slope(n_ctx)
        multipliers == create_alibi_multipliers(n_heads)
    IN  [k \in 1..n_heads |-> [i \in 1..n_ctx |-> [j \in 1..n_ctx |->
            slope[i][j] * multipliers[k]]]]

\* No create_alibi_bias call and no get_cached_alibi call has been made.
NoBiasCall == [called |-> FALSE, n_heads |-> 0, n_ctx |-> 0, alibi_bias |-> <<>>]

NoGetCall ==
    [called |-> FALSE, key_ctx |-> 0, before |-> attention_init,
     status |-> "not called", alibi |-> <<>>, requested |-> 0, first |-> FALSE]

\* The part of the state for the ALiBi calls, when none is made.
AlibiIdle ==
    /\ bias_call = NoBiasCall
    /\ get_call = NoGetCall

\* ------------------------------------------------ Attention.apply_causal_mask

\* A bug a reader could plausibly write: the padding mask is not applied.
apply_causal_mask_no_padding(cfg, attn_scores, past_kv_pos_offset, attention_mask) ==
    LET query_ctx_length == Len(attn_scores)
        key_ctx_length == Len(attn_scores[1])
        final_mask ==
            [a \in 1..query_ctx_length |-> [j \in 1..key_ctx_length |->
                mask_buffer(cfg)[cfg.n_ctx - query_ctx_length + a]
                                [cfg.n_ctx - key_ctx_length + j]]]
    IN  IF query_ctx_length + past_kv_pos_offset # key_ctx_length
        THEN [status |-> "AssertionError", final_mask |-> <<>>, attn_scores |-> <<>>]
        ELSE [status |-> "ok", final_mask |-> final_mask,
              attn_scores |->
                [a \in 1..query_ctx_length |-> [j \in 1..key_ctx_length |->
                    IF final_mask[a][j] THEN attn_scores[a][j] ELSE IGNORE]]]

\* Attention.apply_causal_mask: the assertion on the lengths, the slice of
\* self.mask taken back to front, the padding mask and torch.where.
apply_causal_mask(cfg, attn_scores, past_kv_pos_offset, attention_mask) ==
    LET query_ctx_length == Len(attn_scores)
        key_ctx_length == Len(attn_scores[1])
        final_mask ==
            [a \in 1..query_ctx_length |-> [j \in 1..key_ctx_length |->
                /\ mask_buffer(cfg)[cfg.n_ctx - query_ctx_length + a]
                                   [cfg.n_ctx - key_ctx_length + j]
                /\ (attention_mask # <<>> => attention_mask[j] # 0)]]
    IN  IF query_ctx_length + past_kv_pos_offset # key_ctx_length
        THEN [status |-> "AssertionError", final_mask |-> <<>>, attn_scores |-> <<>>]
        ELSE [status |-> "ok", final_mask |-> final_mask,
              attn_scores |->
                [a \in 1..query_ctx_length |-> [j \in 1..key_ctx_length |->
                    IF final_mask[a][j] THEN attn_scores[a][j] ELSE IGNORE]]]

\* ------------------------------------------------------- Attention.forward

\* The dot product of a query and a key position (before scaling).
Raw(qe, ke) == IF qe.tok = ke.tok THEN 1 ELSE 0

\* What a forward call leaves behind when it raises.
Raised(err, self, entry, offset, q, k, v) ==
    [status |-> err, self |-> self, entry |-> entry,
     kv_cache_pos_offset |-> offset, q |-> q, k |-> k, v |-> v,
     alibi |-> <<>>, final_mask |-> <<>>, attn_scores |-> <<>>, pattern |-> <<>>]

\* Attention.forward for one batch element and one head. past_kv_cache_entry
\* is `entry` when use_cache and None otherwise; attention_mask is <<>> for
\* None; additive_attention_mask is None, as in every call TransformerBlock
\* makes, and no observer is attached to the hook points. The result holds
\* the instance and the entry as the call leaves them.
forward(cfg, self, entry, use_cache, query_input, key_input, value_input, attention_mask) ==
    LET q0 == Projected(query_input)
        k0 == Projected(key_input)
        v0 == value_input
        kv_cache_pos_offset == IF use_cache THEN Len(entry.past_keys) ELSE 0
        appended == append(entry, k0, v0)
        entry1 == IF use_cache THEN appended.self ELSE entry
        k1 == IF use_cache THEN appended.ret[1] ELSE k0
        v1 == IF use_cache THEN appended.ret[2] ELSE v0
        rotary == cfg.positional_embedding_type = "rotary"
        q == IF rotary THEN apply_rotary(q0, kv_cache_pos_offset, attention_mask) ELSE q0
        k == IF rotary THEN apply_rotary(k1, 0, attention_mask) ELSE k1
        query_ctx == Len(q)
        key_ctx == Len(k)
        raw == [a \in 1..query_ctx |-> [j \in 1..key_ctx |-> Fin(Raw(q[a], k[j]))]]
        useAlibi == cfg.positional_embedding_type = "alibi"
        got == get_cached_alibi(self, key_ctx)
        self1 == IF useAlibi THEN got.self ELSE self
        biased ==
            IF useAlibi
            THEN [a \in 1..query_ctx |-> [j \in 1..key_ctx |->
                     Fin(raw[a][j][2] + got.alibi[a][j])]]
            ELSE raw
        causal == cfg.attention_dir = "causal"
        masked == apply_causal_mask(cfg, biased, kv_cache_pos_offset, attention_mask)
        attn_scores == IF causal THEN masked.attn_scores ELSE biased
        pattern == nan_to_zero(softmax(cfg, attn_scores))
    IN  IF useAlibi /\ got.status # "ok"
        THEN Raised(got.status, self1, entry1, kv_cache_pos_offset, q, k, v1)
        ELSE IF useAlibi /\ query_ctx > Len(got.alibi)
        THEN Raised("RuntimeError", self1, entry1, kv_cache_pos_offset, q, k, v1)
        ELSE IF causal /\ masked.status # "ok"
        THEN Raised(masked.status, self1, entry1, kv_cache_pos_offset, q, k, v1)
        ELSE [status |-> "ok", self |-> self1, entry |-> entry1,
              kv_cache_pos_offset |-> kv_cache_pos_offset, q |-> q, k |-> k, v |-> v1,
              alibi |-> IF useAlibi
                        THEN [a \in 1..query_ctx |-> [j \in 1..key_ctx |-> got.alibi[a][j]]]
                        ELSE <<>>,
              final_mask |-> IF causal THEN masked.final_mask ELSE <<>>,
              attn_scores |-> attn_scores, pattern |-> pattern]

\* ------------------------------------------------ TransformerBlock.__init__

\* The values cfg.normalization_type is given: the five that __init__
\* recognizes (None written "None") and one that it does not.
NormalizationTypes == {"LN", "LNPre", "RMS", "RMSPre", "None", "BatchNorm"}

\* The values cfg.positional_embedding_type takes.
PositionalEmbeddingTypes == {"standard", "shortformer", "rotary", "alibi"}

\* The values cfg.act_fn is given: the six that MLP.__init__ recognizes and
\* one that it does not.
ActFns == {"relu", "gelu", "silu", "gelu_new", "gelu_fast", "solu_ln", "tanh"}

\* cfg.act_fn.endswith("_ln"), on the selectors above.
endswith_ln(act_fn) == act_fn \in {"solu_ln"}

\* A bug a reader could plausibly write: the final else is missing, and an
\* unrecognized selector leaves the MLP constructed without act_fn.
mlp_init_defers_unknown(cfg) ==
    IF cfg.act_fn \in {"relu", "gelu", "silu", "gelu_new", "gelu_fast"}
    THEN [status |-> "ok", attrs |-> {"hook_pre", "hook_post", "act_fn"}]
    ELSE IF cfg.act_fn = "solu_ln"
    THEN [status |-> "ok",
          attrs |-> {"hook_pre", "hook_post", "act_fn", "hook_mid", "ln"}]
    ELSE [status |-> "ok", attrs |-> {"hook_pre", "hook_post"}]

\* MLP.__init__: the hook points and submodules the MLP has, or the
\* ValueError of the final else.
mlp_init(cfg) ==
    IF cfg.act_fn \in {"relu", "gelu", "silu", "gelu_new", "gelu_fast"}
    THEN [status |-> "ok", attrs |-> {"hook_pre", "hook_post", "act_fn"}]
    ELSE IF cfg.act_fn = "solu_ln"
    THEN [status |-> "ok",
          attrs |-> {"hook_pre", "hook_post", "act_fn", "hook_mid", "ln"}]
    ELSE [status |-> "ValueError", attrs |-> {"hook_pre", "hook_post"}]

\* MLP.forward: the hook points in the order they fire. self.act_fn and
\* self.hook_mid are looked up here.
mlp_forward(cfg, self) ==
    IF "act_fn" \notin self.attrs
    THEN [status |-> "AttributeError", trace |-> <<"hook_pre">>]
    ELSE IF ~endswith_ln(cfg.act_fn)
    THEN [status |-> "ok", trace |-> <<"hook_pre", "hook_post">>]
    ELSE IF "hook_mid" \notin self.attrs
    THEN [status |-> "AttributeError", trace |-> <<"hook_pre">>]
    ELSE [status |-> "ok", trace |-> <<"hook_pre", "hook_mid", "hook_post">>]

\* The hook points Attention.__init__ constructs (lines 101-116).
attention_hook_points(cfg) ==
    {"hook_k", "hook_q", "hook_v", "hook_z", "hook_attn_scores",
     "hook_pattern", "hook_result"}
    \cup (IF cfg.positional_embedding_type = "shortformer"
          THEN {"hook_attn_input"} ELSE {})
    \cup (IF cfg.positional_embedding_type = "rotary"
          THEN {"hook_rot_k", "hook_rot_q"} ELSE {})

\* A bug a reader could plausibly write: the keys are projected and hooked
\* before the queries, in the order __init__ constructs the hook points.
attention_forward_hooks_init_order(cfg, self) ==
    LET projected == <<"hook_k", "hook_q", "hook_v">>
        rotated == IF cfg.positional_embedding_type = "rotary"
                   THEN projected \o <<"hook_rot_q", "hook_rot_k">>
                   ELSE projected
        got == get_cached_alibi(self, 1)
        scored == rotated \o <<"hook_attn_scores", "hook_pattern", "hook_z">>
    IN  IF cfg.positional_embedding_type = "alibi" /\ got.status # "ok"
        THEN [status |-> got.status, trace |-> rotated]
        ELSE [status |-> "ok",
              trace |-> IF cfg.use_attn_result
                        THEN scored \o <<"hook_result">> ELSE scored]

\* Attention.forward as the block sees it: the hook points in the order they
\* fire, up to the point where the call returns or raises. The lengths agree
\* in every call the block makes, so the assertion of apply_causal_mask holds.
attention_forward_hooks(cfg, self) ==
    LET projected == <<"hook_q", "hook_k", "hook_v">>
        rotated == IF cfg.positional_embedding_type = "rotary"
                   THEN projected \o <<"hook_rot_q", "hook_rot_k">>
                   ELSE projected
        got == get_cached_alibi(self, 1)
        scored == rotated \o <<"hook_attn_scores", "hook_pattern", "hook_z">>
    IN  IF cfg.positional_embedding_type = "alibi" /\ got.status # "ok"
        THEN [status |-> got.status, trace |-> rotated]
        ELSE [status |-> "ok",
              trace |-> IF cfg.use_attn_result
                        THEN scored \o <<"hook_result">> ELSE scored]

\* The configurations a TransformerBlock is constructed with.
BlockConfigs ==
    { [normalization_type |-> n, attn_only |-> ao, parallel_attn_mlp |-> par,
       use_attn_in |-> ai, use_split_qkv_input |-> sp, use_hook_mlp_in |-> mi,
       use_attn_result |-> ar, positional_embedding_type |-> p, act_fn |-> f] :
        n \in NormalizationTypes, ao \in BOOLEAN, par \in BOOLEAN,
        ai \in BOOLEAN, sp \in BOOLEAN, mi \in BOOLEAN, ar \in BOOLEAN,
        p \in PositionalEmbeddingTypes, f \in ActFns }

\* No MLP: the block is attention-only, or not constructed.
NoMlp == [status |-> "none", attrs |-> {}]

\* No TransformerBlock object.
NoBlock(status) ==
    [constructed |-> FALSE, status |-> status, attrs |-> {},
     attn |-> attention_init, mlp |-> NoMlp, hook_points |-> {}]

\* TransformerBlock.__init__: the attributes the constructed block has, its
\* submodules and the hook points constructed in it and in them. An
\* unrecognized normalization_type is only logged, and leaves the block
\* without ln1 and ln2; an error raised by MLP(cfg) leaves no block.
block_init(cfg) ==
    LET recognized == cfg.normalization_type \in {"LN", "LNPre", "RMS", "RMSPre", "None"}
        mlp == IF ~cfg.attn_only THEN mlp_init(cfg) ELSE NoMlp
        hooks == {"hook_attn_in", "hook_q_input", "hook_k_input", "hook_v_input",
                  "hook_mlp_in", "hook_attn_out", "hook_mlp_out", "hook_resid_pre"}
                 \cup (IF ~cfg.attn_only /\ ~cfg.parallel_attn_mlp
                       THEN {"hook_resid_mid"} ELSE {})
                 \cup {"hook_resid_post"}
    IN  IF mlp.status = "ValueError"
        THEN NoBlock("ValueError")
        ELSE [constructed |-> TRUE, status |-> "ok",
              attrs |->
                 (IF recognized THEN {"ln1"} ELSE {})
                 \cup (IF recognized /\ ~cfg.attn_only THEN {"ln2"} ELSE {})
                 \cup {"attn"}
                 \cup (IF ~cfg.attn_only THEN {"mlp"} ELSE {})
                 \cup hooks,
              attn |-> attention_init,
              mlp |-> mlp,
              hook_points |-> hooks \cup attention_hook_points(cfg)
                              \cup {a \in mlp.attrs :
                                       a \in {"hook_pre", "hook_mid", "hook_post"}}]

\* ------------------------------------------------- TransformerBlock.forward

\* Tensors of the block are terms over the inputs, in prefix notation:
\* a + b, a normalization, the attention module and the MLP applied.
plus(a, b) == <<"+">> \o a \o b

\* self.ln1 / self.ln2: nn.Identity() when normalization_type is None.
norm(cfg, name, x) ==
    IF cfg.normalization_type = "None" THEN x ELSE <<name>> \o x

\* self.attn(query_input=..., key_input=..., value_input=...)
attn_module(query_input, key_input, value_input) ==
    <<"attn">> \o query_input \o key_input \o value_input

\* self.mlp(x)
mlp_module(x) == <<"mlp">> \o x

\* add_head_dimension: einops.repeat to [batch, pos, n_heads, d_model].
add_head_dimension(tensor) == <<"heads">> \o tensor

\* x + (0.0 if shortformer_pos_embed is None else shortformer_pos_embed)
plus_pos_embed(x, shortformer_pos_embed) ==
    IF shortformer_pos_embed = <<>> THEN x ELSE plus(x, shortformer_pos_embed)

\* What a block forward call leaves behind when it raises.
BlockRaised(err, trace) ==
    [status |-> err, trace |-> trace, attn_out |-> <<>>, resid_mid |-> <<>>,
     mlp_in |-> <<>>, mlp_out |-> <<>>, resid_post |-> <<>>]

\* A bug a reader could plausibly write: the MLP output is added to
\* resid_pre, dropping the attention output from the residual.
sequential_branch_drops_attn(cfg, self, trace, resid_pre, attn_out) ==
    LET resid_mid == plus(resid_pre, attn_out)
        mlp_in == resid_mid
        normalized_resid_mid == norm(cfg, "ln2", mlp_in)
        mlp_out == mlp_module(normalized_resid_mid)
        trace1 == trace \o <<"hook_resid_mid">>
                  \o (IF cfg.use_hook_mlp_in THEN <<"hook_mlp_in">> ELSE <<>>)
                  \o <<"ln2", "mlp">>
        fed_forward == mlp_forward(cfg, self.mlp)
    IN  IF fed_forward.status # "ok"
        THEN BlockRaised(fed_forward.status, trace1 \o fed_forward.trace)
        ELSE
        [status |-> "ok",
         trace |-> trace1 \o fed_forward.trace
                   \o <<"hook_mlp_out", "hook_resid_post">>,
         attn_out |-> attn_out, resid_mid |-> resid_mid, mlp_in |-> mlp_in,
         mlp_out |-> mlp_out, resid_post |-> plus(resid_pre, mlp_out)]

\* forward, lines 159-174: not attn_only and not parallel_attn_mlp.
sequential_branch(cfg, self, trace, resid_pre, attn_out) ==
    LET resid_mid == plus(resid_pre, attn_out)
        mlp_in == resid_mid
        normalized_resid_mid == norm(cfg, "ln2", mlp_in)
        mlp_out == mlp_module(normalized_resid_mid)
        trace1 == trace \o <<"hook_resid_mid">>
                  \o (IF cfg.use_hook_mlp_in THEN <<"hook_mlp_in">> ELSE <<>>)
                  \o <<"ln2", "mlp">>
        fed_forward == mlp_forward(cfg, self.mlp)
    IN  IF fed_forward.status # "ok"
        THEN BlockRaised(fed_forward.status, trace1 \o fed_forward.trace)
        ELSE
        [status |-> "ok",
         trace |-> trace1 \o fed_forward.trace
                   \o <<"hook_mlp_out", "hook_resid_post">>,
         attn_out |-> attn_out, resid_mid |-> resid_mid, mlp_in |-> mlp_in,
         mlp_out |-> mlp_out, resid_post |-> plus(resid_mid, mlp_out)]

\* A bug a reader could plausibly write: the MLP of the parallel composition
\* reads the residual after attention, as the sequential one does.
parallel_branch_reads_mid(cfg, self, trace, resid_pre, attn_out) ==
    LET mlp_in == plus(resid_pre, attn_out)
        normalized_resid_pre_2 == norm(cfg, "ln2", mlp_in)
        mlp_out == mlp_module(normalized_resid_pre_2)
        trace1 == trace \o (IF cfg.use_hook_mlp_in THEN <<"hook_mlp_in">> ELSE <<>>)
        fed_forward == mlp_forward(cfg, self.mlp)
    IN  IF "ln2" \notin self.attrs
        THEN BlockRaised("AttributeError", trace)
        ELSE IF "mlp" \notin self.attrs
        THEN BlockRaised("AttributeError", trace1 \o <<"ln2">>)
        ELSE IF fed_forward.status # "ok"
        THEN BlockRaised(fed_forward.status,
                         trace1 \o <<"ln2", "mlp">> \o fed_forward.trace)
        ELSE [status |-> "ok",
              trace |-> trace1 \o <<"ln2", "mlp">> \o fed_forward.trace
                        \o <<"hook_mlp_out", "hook_resid_post">>,
              attn_out |-> attn_out, resid_mid |-> <<>>, mlp_in |-> mlp_in,
              mlp_out |-> mlp_out,
              resid_post |-> plus(plus(resid_pre, attn_out), mlp_out)]

\* forward, lines 175-188: parallel_attn_mlp. self.ln2 and self.mlp are looked
\* up here whether or not __init__ created them.
parallel_branch(cfg, self, trace, resid_pre, attn_out) ==
    LET mlp_in == resid_pre
        normalized_resid_pre_2 == norm(cfg, "ln2", mlp_in)
        mlp_out == mlp_module(normalized_resid_pre_2)
        trace1 == trace \o (IF cfg.use_hook_mlp_in THEN <<"hook_mlp_in">> ELSE <<>>)
        fed_forward == mlp_forward(cfg, self.mlp)
    IN  IF "ln2" \notin self.attrs
        THEN BlockRaised("AttributeError", trace)
        ELSE IF "mlp" \notin self.attrs
        THEN BlockRaised("AttributeError", trace1 \o <<"ln2">>)
        ELSE IF fed_forward.status # "ok"
        THEN BlockRaised(fed_forward.status,
                         trace1 \o <<"ln2", "mlp">> \o fed_forward.trace)
        ELSE [status |-> "ok",
              trace |-> trace1 \o <<"ln2", "mlp">> \o fed_forward.trace
                        \o <<"hook_mlp_out", "hook_resid_post">>,
              attn_out |-> attn_out, resid_mid |-> <<>>, mlp_in |-> mlp_in,
              mlp_out |-> mlp_out,
              resid_post |-> plus(plus(resid_pre, attn_out), mlp_out)]

\* forward, lines 189-192: attention-only and not parallel.
attn_only_branch(trace, resid_pre, attn_out) ==
    [status |-> "ok", trace |-> trace \o <<"hook_resid_post">>,
     attn_out |-> attn_out, resid_mid |-> <<>>, mlp_in |-> <<>>,
     mlp_out |-> <<>>, resid_post |-> plus(resid_pre, attn_out)]

\* A bug a reader could plausibly write: the positional embedding is added to
\* the value input as it is to the query and key inputs.
block_forward_pos_embed_on_value(cfg, self, resid_pre, shortformer_pos_embed) ==
    LET heads == cfg.use_attn_in \/ cfg.use_split_qkv_input
        attn_in == IF heads THEN add_head_dimension(resid_pre) ELSE resid_pre
        pos_embed == IF heads /\ shortformer_pos_embed # <<>>
                     THEN add_head_dimension(shortformer_pos_embed)
                     ELSE shortformer_pos_embed
        query_input == attn_in
        key_input == attn_in
        value_input == attn_in
        trace0 == <<"hook_resid_pre">>
                  \o (IF cfg.use_attn_in THEN <<"hook_attn_in">> ELSE <<>>)
                  \o (IF cfg.use_split_qkv_input
                      THEN <<"hook_q_input", "hook_k_input", "hook_v_input">>
                      ELSE <<>>)
        attn_out ==
            attn_module(plus_pos_embed(norm(cfg, "ln1", query_input), pos_embed),
                        plus_pos_embed(norm(cfg, "ln1", key_input), pos_embed),
                        plus_pos_embed(norm(cfg, "ln1", value_input), pos_embed))
        attended == attention_forward_hooks(cfg, self.attn)
        called == trace0 \o <<"ln1", "ln1", "ln1", "attn">> \o attended.trace
        trace1 == called \o <<"hook_attn_out">>
    IN  IF "ln1" \notin self.attrs
        THEN BlockRaised("AttributeError", trace0)
        ELSE IF attended.status # "ok"
        THEN BlockRaised(attended.status, called)
        ELSE IF ~cfg.attn_only /\ ~cfg.parallel_attn_mlp
        THEN sequential_branch(cfg, self, trace1, resid_pre, attn_out)
        ELSE IF cfg.parallel_attn_mlp
        THEN parallel_branch(cfg, self, trace1, resid_pre, attn_out)
        ELSE attn_only_branch(trace1, resid_pre, attn_out)

\* TransformerBlock.forward with no observer attached. shortformer_pos_embed
\* is <<>> for None. The trace lists the hook points and the submodules in
\* the order they are called.
block_forward(cfg, self, resid_pre, shortformer_pos_embed) ==
    LET heads == cfg.use_attn_in \/ cfg.use_split_qkv_input
        attn_in == IF heads THEN add_head_dimension(resid_pre) ELSE resid_pre
        pos_embed == IF heads /\ shortformer_pos_embed # <<>>
                     THEN add_head_dimension(shortformer_pos_embed)
                     ELSE shortformer_pos_embed
        query_input == attn_in
        key_input == attn_in
        value_input == attn_in
        trace0 == <<"hook_resid_pre">>
                  \o (IF cfg.use_attn_in THEN <<"hook_attn_in">> ELSE <<>>)
                  \o (IF cfg.use_split_qkv_input
                      THEN <<"hook_q_input", "hook_k_input", "hook_v_input">>
                      ELSE <<>>)
        attn_out ==
            attn_module(plus_pos_embed(norm(cfg, "ln1", query_input), pos_embed),
                        plus_pos_embed(norm(cfg, "ln1", key_input), pos_embed),
                        norm(cfg, "ln1", value_input))
        attended == attention_forward_hooks(cfg, self.attn)
        called == trace0 \o <<"ln1", "ln1", "ln1", "attn">> \o attended.trace
        trace1 == called \o <<"hook_attn_out">>
    IN  IF "ln1" \notin self.attrs
        THEN BlockRaised("AttributeError", trace0)
        ELSE IF attended.status # "ok"
        THEN BlockRaised(attended.status, called)
        ELSE IF ~cfg.attn_only /\ ~cfg.parallel_attn_mlp
        THEN sequential_branch(cfg, self, trace1, resid_pre, attn_out)
        ELSE IF cfg.parallel_attn_mlp
        THEN parallel_branch(cfg, self, trace1, resid_pre, attn_out)
        ELSE attn_only_branch(trace1, resid_pre, attn_out)

\* ------------------------------- TransformerBlock.forward with an observer

\* Tensors that may share storage: the heap holds the content of every
\* storage (a term), and a tensor is a storage with or without a head axis
\* that einops.repeat put in front of it as a view (every head is then the
\* same memory as the tensor repeated).
Ref(s, expanded) == [s |-> s, expanded |-> expanded]

\* The content of a tensor when it is read.
read(heap, t) ==
    IF t.expanded THEN add_head_dimension(heap[t.s]) ELSE heap[t.s]

\* tensor.clone(): a new storage with the content of the tensor, the head
\* axis laid out in it.
clone(heap, t) ==
    [heap |-> Append(heap, read(heap, t)), t |-> Ref(Len(heap) + 1, FALSE)]

\* What an observer attached to one hook point does with the tensor it is
\* given: returns another tensor, modifies the given one in place, or
\* modifies one head of it in place.
NoObserver == [hook |-> "none", kind |-> "none"]

Observers ==
    {NoObserver}
    \cup [hook : {"hook_attn_in", "hook_q_input", "hook_k_input",
                  "hook_v_input", "hook_mlp_in"},
          kind : {"replace", "in place"}]
    \cup [hook : {"hook_attn_in", "hook_q_input", "hook_k_input",
                  "hook_v_input"},
          kind : {"in place, one head"}]

\* hook_point(t) with the observer: the tensor the computation goes on with,
\* and the heap.  A write to one head of a tensor whose head axis is a view
\* is a write to the repeated memory, hence to every head.
fire(heap, t, hook, observer) ==
    IF observer.hook # hook THEN [heap |-> heap, t |-> t]
    ELSE IF observer.kind = "replace"
    THEN [heap |-> Append(heap, <<"replaced">>), t |-> Ref(Len(heap) + 1, FALSE)]
    ELSE IF observer.kind = "in place, one head" /\ ~t.expanded
    THEN [heap |-> [heap EXCEPT ![t.s] = <<"edited head">> \o @], t |-> t]
    ELSE [heap |-> [heap EXCEPT ![t.s] = <<"edited">> \o @], t |-> t]

\* self.hook_attn_in(attn_in.clone())
hook_attn_in(heap, attn_in, observer) ==
    LET c == clone(heap, attn_in) IN fire(c.heap, c.t, "hook_attn_in", observer)

\* A bug a reader could plausibly write: the key input is hooked without
\* being cloned.
split_qkv_inputs_key_not_cloned(heap, attn_in, observer) ==
    LET cq == clone(heap, attn_in)
        q == fire(cq.heap, cq.t, "hook_q_input", observer)
        k == fire(q.heap, attn_in, "hook_k_input", observer)
        cv == clone(k.heap, attn_in)
        v == fire(cv.heap, cv.t, "hook_v_input", observer)
    IN  [heap |-> v.heap, q |-> q.t, k |-> k.t, v |-> v.t]

\* forward, the use_split_qkv_input branch: query_input =
\* self.hook_q_input(attn_in.clone()), then the same for key and value.
split_qkv_inputs(heap, attn_in, observer) ==
    LET cq == clone(heap, attn_in)
        q == fire(cq.heap, cq.t, "hook_q_input", observer)
        ck == clone(q.heap, attn_in)
        k == fire(ck.heap, ck.t, "hook_k_input", observer)
        cv == clone(k.heap, attn_in)
        v == fire(cv.heap, cv.t, "hook_v_input", observer)
    IN  [heap |-> v.heap, q |-> q.t, k |-> k.t, v |-> v.t]

\* A bug a reader could plausibly write: hook_mlp_in is given the residual
\* itself.
mlp_input_not_cloned(cfg, heap, resid, observer) ==
    IF ~cfg.use_hook_mlp_in THEN [heap |-> heap, t |-> resid]
    ELSE fire(heap, resid, "hook_mlp_in", observer)

\* resid if not self.cfg.use_hook_mlp_in else self.hook_mlp_in(resid.clone()),
\* with resid_mid (sequential) or resid_pre (parallel) for resid.
mlp_input(cfg, heap, resid, observer) ==
    IF ~cfg.use_hook_mlp_in THEN [heap |-> heap, t |-> resid]
    ELSE LET c == clone(heap, resid)
         IN  fire(c.heap, c.t, "hook_mlp_in", observer)

\* What an observed block forward call leaves behind when it raises.
ObservedRaised(err) ==
    [status |-> err, query_input |-> <<>>, key_input |-> <<>>,
     value_input |-> <<>>, attn_out |-> <<>>, resid_summed |-> <<>>,
     mlp_in |-> <<>>, mlp_out |-> <<>>, resid_post |-> <<>>]

\* TransformerBlock.forward with an observer at one of hook_attn_in,
\* hook_q_input, hook_k_input, hook_v_input and hook_mlp_in, and
\* shortformer_pos_embed None: the contents of the three attention inputs when
\* self.attn is called, of the residual when it is read for the residual
\* sum, of the feed-forward input, and of resid_post.
block_forward_observed(cfg, self, resid_pre, observer) ==
    LET heap0 == <<resid_pre>>
        resid == Ref(1, FALSE)
        heads == cfg.use_attn_in \/ cfg.use_split_qkv_input
        attn_in0 == IF heads THEN Ref(1, TRUE) ELSE resid
        a == IF cfg.use_attn_in THEN hook_attn_in(heap0, attn_in0, observer)
             ELSE [heap |-> heap0, t |-> attn_in0]
        inputs == IF cfg.use_split_qkv_input
                  THEN split_qkv_inputs(a.heap, a.t, observer)
                  ELSE [heap |-> a.heap, q |-> a.t, k |-> a.t, v |-> a.t]
        heap1 == inputs.heap
        query_input == read(heap1, inputs.q)
        key_input == read(heap1, inputs.k)
        value_input == read(heap1, inputs.v)
        attn_out == attn_module(norm(cfg, "ln1", query_input),
                                norm(cfg, "ln1", key_input),
                                norm(cfg, "ln1", value_input))
        attended == attention_forward_hooks(cfg, self.attn)
        sequential == ~cfg.attn_only /\ ~cfg.parallel_attn_mlp
        \* sequential: resid_mid = resid_pre + attn_out, in a storage of its own
        heap2 == IF sequential
                 THEN Append(heap1, plus(read(heap1, resid), attn_out))
                 ELSE heap1
        fed_from == IF sequential THEN Ref(Len(heap2), FALSE) ELSE resid
        m == mlp_input(cfg, heap2, fed_from, observer)
        mlp_in == read(m.heap, m.t)
        mlp_out == mlp_module(norm(cfg, "ln2", mlp_in))
        fed_forward == mlp_forward(cfg, self.mlp)
        summed == IF cfg.attn_only /\ ~cfg.parallel_attn_mlp
                  THEN read(heap1, resid) ELSE read(m.heap, fed_from)
    IN  IF "ln1" \notin self.attrs
        THEN ObservedRaised("AttributeError")
        ELSE IF attended.status # "ok"
        THEN ObservedRaised(attended.status)
        ELSE IF cfg.attn_only /\ ~cfg.parallel_attn_mlp
        THEN [status |-> "ok", query_input |-> query_input,
              key_input |-> key_input, value_input |-> value_input,
              attn_out |-> attn_out, resid_summed |-> summed,
              mlp_in |-> <<>>, mlp_out |-> <<>>,
              resid_post |-> plus(summed, attn_out)]
        ELSE IF "ln2" \notin self.attrs \/ "mlp" \notin self.attrs
        THEN ObservedRaised("AttributeError")
        ELSE IF fed_forward.status # "ok"
        THEN ObservedRaised(fed_forward.status)
        ELSE [status |-> "ok", query_input |-> query_input,
              key_input |-> key_input, value_input |-> value_input,
              attn_out |-> attn_out, resid_summed |-> summed,
              mlp_in |-> mlp_in, mlp_out |-> mlp_out,
              resid_post |-> IF sequential THEN plus(summed, mlp_out)
                             ELSE plus(plus(summed, attn_out), mlp_out)]

\* No observed block forward call has been made.
NoObserved ==
    [called |-> FALSE, resid_pre |-> <<>>, observer |-> NoObserver,
     res |-> ObservedRaised("not called")]

ObserveIdle == obs = NoObserved

\* ---------------------------------- Attention.forward with an observer

\* An observer attached to one of the hook points of Attention between the
\* projections and the scores, which replaces or modifies the tensor it is
\* given.
AttnObservers ==
    {NoObserver}
    \cup [hook : {"hook_q", "hook_k", "hook_v", "hook_rot_q", "hook_rot_k"},
          kind : {"replace"}]

\* What the observer leaves of a position: a content that no projection
\* gives.
Replaced(t) == t + 2

\* hook_point(x) for queries and keys, and for values.
hook_qk(x, hook, observer) ==
    IF observer.hook # hook THEN x
    ELSE [a \in DOMAIN x |-> [x[a] EXCEPT !.tok = Replaced(@)]]

hook_values(x, hook, observer) ==
    IF observer.hook # hook THEN x
    ELSE [a \in DOMAIN x |-> Replaced(x[a])]

\* A bug a reader could plausibly write: the keys are rotated before they
\* are appended, so that the entry holds rotated keys.
forward_hooked_rotates_first(cfg, entry, query_input, key_input, value_input, observer) ==
    LET q0 == hook_qk(Projected(query_input), "hook_q", observer)
        k0 == hook_qk(Projected(key_input), "hook_k", observer)
        v0 == hook_values(value_input, "hook_v", observer)
        kv_cache_pos_offset == Len(entry.past_keys)
        rotary == cfg.positional_embedding_type = "rotary"
        rotated == IF rotary THEN apply_rotary(k0, kv_cache_pos_offset, <<>>)
                   ELSE k0
        appended == append(entry, rotated, v0)
    IN  [entry |-> appended.self,
         kv_cache_pos_offset |-> kv_cache_pos_offset,
         left_hook_k |-> k0, left_hook_v |-> v0,
         appended_keys |-> appended.ret[1],
         q |-> IF rotary
               THEN hook_qk(apply_rotary(q0, kv_cache_pos_offset, <<>>),
                            "hook_rot_q", observer)
               ELSE q0,
         k |-> IF rotary
               THEN hook_qk(appended.ret[1], "hook_rot_k", observer)
               ELSE appended.ret[1],
         v |-> appended.ret[2]]

\* Attention.forward from the projections to the rotation, with a cache
\* entry, no padding mask and an observer: hook_q, hook_k and hook_v fire on
\* the projections, what they return is appended to the entry, and with
\* rotary embeddings hook_rot_q and hook_rot_k fire on the rotated queries
\* and on the rotated whole key tensor.
forward_hooked(cfg, entry, query_input, key_input, value_input, observer) ==
    LET q0 == hook_qk(Projected(query_input), "hook_q", observer)
        k0 == hook_qk(Projected(key_input), "hook_k", observer)
        v0 == hook_values(value_input, "hook_v", observer)
        kv_cache_pos_offset == Len(entry.past_keys)
        appended == append(entry, k0, v0)
        rotary == cfg.positional_embedding_type = "rotary"
    IN  [entry |-> appended.self,
         kv_cache_pos_offset |-> kv_cache_pos_offset,
         left_hook_k |-> k0, left_hook_v |-> v0,
         appended_keys |-> appended.ret[1],
         q |-> IF rotary
               THEN hook_qk(apply_rotary(q0, kv_cache_pos_offset, <<>>),
                            "hook_rot_q", observer)
               ELSE q0,
         k |-> IF rotary
               THEN hook_qk(apply_rotary(appended.ret[1], 0, <<>>),
                            "hook_rot_k", observer)
               ELSE appended.ret[1],
         v |-> appended.ret[2]]

\* No observed forward call has been made on the entry.
NoHooked ==
    [called |-> FALSE, observer |-> NoObserver, before |-> init_cache_entry,
     left_keys |-> <<>>, left_values |-> <<>>,
     res |-> forward_hooked([positional_embedding_type |-> "standard"],
                            init_cache_entry, <<>>, <<>>, <<>>, NoObserver)]

HookedIdle == hk = NoHooked

\* ------------------------------------------------------------ tensor shapes

\* The axes of the residual stream and of the positional embedding the block
\* is given: [batch, pos, d_model].
residual_shape == <<"batch", "pos", "d_model">>

\* The result of an operation whose operands do not have the axes it needs.
ShapeError == <<"shape error">>

\* einops.repeat(tensor, "batch pos d_model -> batch pos n_heads d_model")
add_head_dimension_shape(tensor) ==
    IF tensor = <<"batch", "pos", "d_model">>
    THEN <<"batch", "pos", "head_index", "d_model">>
    ELSE ShapeError

\* a + b: the operands have the same axes, or the sum does not broadcast to
\* the axes of either.
plus_shape(a, b) == IF a = b THEN a ELSE ShapeError

\* The normalization modules divide by a scale kept along the last axis.
norm_shape(x) == x

\* MLP.forward: einsum "batch pos d_model, d_model d_mlp -> batch pos d_mlp",
\* then "batch pos d_mlp, d_mlp d_model -> batch pos d_model".
mlp_forward_shape(x) ==
    IF x = <<"batch", "pos", "d_model">>
    THEN <<"batch", "pos", "d_model">>
    ELSE ShapeError

\* einops.reduce(result, "batch position index model->batch position model")
reduce_index(result) ==
    IF Len(result) = 4
    THEN <<result[1], result[2], result[4]>>
    ELSE ShapeError

\* A bug a reader could plausibly write: with use_attn_result the per-head
\* result is returned without the sum over heads.
attention_forward_shape_unreduced(cfg, query_input, key_input, value_input) ==
    LET qkv_einops_string ==
            IF cfg.use_split_qkv_input \/ cfg.use_attn_in
            THEN <<"batch", "pos", "head_index", "d_model">>
            ELSE <<"batch", "pos", "d_model">>
        result == <<"batch", "pos", "head_index", "d_model">>
    IN  IF \/ query_input # qkv_einops_string
           \/ key_input # qkv_einops_string
           \/ value_input # qkv_einops_string
        THEN ShapeError
        ELSE IF ~cfg.use_attn_result
        THEN <<"batch", "pos", "d_model">>
        ELSE result

\* Attention.forward on shapes: the inputs have the axes of
\* qkv_einops_string, z is [batch, pos, head_index, d_head], and the value
\* returned is the einsum to "batch pos d_model" or, with use_attn_result,
\* the per-head result summed over the head axis.
attention_forward_shape(cfg, query_input, key_input, value_input) ==
    LET qkv_einops_string ==
            IF cfg.use_split_qkv_input \/ cfg.use_attn_in
            THEN <<"batch", "pos", "head_index", "d_model">>
            ELSE <<"batch", "pos", "d_model">>
        result == <<"batch", "pos", "head_index", "d_model">>
    IN  IF \/ query_input # qkv_einops_string
           \/ key_input # qkv_einops_string
           \/ value_input # qkv_einops_string
        THEN ShapeError
        ELSE IF ~cfg.use_attn_result
        THEN <<"batch", "pos", "d_model">>
        ELSE reduce_index(result)

\* The shape of the tensor a term denotes: the term is read from position i,
\* and `next` is the position after it.
RECURSIVE shape_at(_, _, _)
shape_at(cfg, t, i) ==
    LET sym == t[i]
        a == shape_at(cfg, t, i + 1)
        b == shape_at(cfg, t, a.next)
        c == shape_at(cfg, t, b.next)
    IN  IF sym = "+"
        THEN [shape |-> plus_shape(a.shape, b.shape), next |-> b.next]
        ELSE IF sym = "attn"
        THEN [shape |-> attention_forward_shape(cfg, a.shape, b.shape, c.shape),
              next |-> c.next]
        ELSE IF sym \in {"ln1", "ln2"}
        THEN [shape |-> norm_shape(a.shape), next |-> a.next]
        ELSE IF sym = "mlp"
        THEN [shape |-> mlp_forward_shape(a.shape), next |-> a.next]
        ELSE IF sym = "heads"
        THEN [shape |-> add_head_dimension_shape(a.shape), next |-> a.next]
        ELSE [shape |-> residual_shape, next |-> i + 1]

shape(cfg, t) == shape_at(cfg, t, 1).shape

\* The residual streams and positional embeddings a block is called with.
ResidInputs == {<<"x">>, <<"y">>}
PosEmbedInputs == {<<>>, <<"pos">>}

NoBlockForward ==
    [called |-> FALSE, resid_pre |-> <<>>, shortformer_pos_embed |-> <<>>,
     res |-> BlockRaised("not called", <<>>)]

\* The block part of the state when no TransformerBlock is in use.
BlockIdle ==
    /\ bcfg = [normalization_type |-> "LN", attn_only |-> FALSE,
               parallel_attn_mlp |-> FALSE, use_attn_in |-> FALSE,
               use_split_qkv_input |-> FALSE, use_hook_mlp_in |-> FALSE,
               use_attn_result |-> FALSE,
               positional_embedding_type |-> "standard", act_fn |-> "relu"]
    /\ block = NoBlock("not constructed")
    /\ bres = NoBlockForward

\* ------------------------------------------------- rotary, channel by channel

\* cfg.d_head of the rotary configurations that are modelled.
DHead == 4

\* The rotary configurations: cfg.rotary_dim (even, at most d_head) and
\* whether cfg.original_architecture is one of "GPTNeoXForCausalLM",
\* "LlamaForCausalLM", which pair channel c with channel c + rotary_dim/2
\* instead of its neighbour.
RotaryConfigs == [rotary_dim : {2, 4}, neox : BOOLEAN, n_ctx : {NCtx}]

\* Angles are followed exactly, in quarter turns: cos and sin of k quarter
\* turns.
Cos4(k) == <<1, 0, -1, 0>>[(k % 4) + 1]
Sin4(k) == <<0, 1, 0, -1>>[(k % 4) + 1]

\* 1 / freq[d] for d in arange(rotary_dim // 2), in quarter turns per
\* position: a different angle step for each frequency index.
AngleStep(d) == <<1, 3>>[d + 1]

\* A bug a reader could plausibly write: the adjacent repeat for every
\* architecture.
calculate_sin_cos_rotary_one_repeat(cfg) ==
    LET freq(c) == (c - 1) \div 2
        angles == [pos \in 1..cfg.n_ctx |->
                     [c \in 1..cfg.rotary_dim |-> (pos - 1) * AngleStep(freq(c))]]
    IN  [sin |-> [pos \in 1..cfg.n_ctx |->
                    [c \in 1..cfg.rotary_dim |-> Sin4(angles[pos][c])]],
         cos |-> [pos \in 1..cfg.n_ctx |->
                    [c \in 1..cfg.rotary_dim |-> Cos4(angles[pos][c])]]]

\* Attention.calculate_sin_cos_rotary: the tables, one row per position and
\* one entry per rotated channel (1-based here).  freq is repeated
\* "d -> (2 d)" for the NeoX pairing and "d -> (d 2)" otherwise.
calculate_sin_cos_rotary(cfg) ==
    LET freq(c) == IF cfg.neox THEN (c - 1) % (cfg.rotary_dim \div 2)
                   ELSE (c - 1) \div 2
        angles == [pos \in 1..cfg.n_ctx |->
                     [c \in 1..cfg.rotary_dim |-> (pos - 1) * AngleStep(freq(c))]]
    IN  [sin |-> [pos \in 1..cfg.n_ctx |->
                    [c \in 1..cfg.rotary_dim |-> Sin4(angles[pos][c])]],
         cos |-> [pos \in 1..cfg.n_ctx |->
                    [c \in 1..cfg.rotary_dim |-> Cos4(angles[pos][c])]]]

\* Attention.rotate_every_two on the channels of one position.
rotate_every_two(cfg, x) ==
    LET n == Len(x) \div 2 IN
    IF cfg.neox
    THEN [c \in 1..Len(x) |-> IF c <= n THEN -x[c + n] ELSE x[c - n]]
    ELSE [c \in 1..Len(x) |-> IF c % 2 = 1 THEN -x[c + 1] ELSE x[c - 1]]

\* The body of apply_rotary for one position, given that position's rows of
\* the tables: x_rot * cos + rotate_every_two(x_rot) * sin, then x_pass.
rotate_position(cfg, x, cos_row, sin_row) ==
    LET x_rot == SubSeq(x, 1, cfg.rotary_dim)
        x_pass == SubSeq(x, cfg.rotary_dim + 1, Len(x))
        x_flip == rotate_every_two(cfg, x_rot)
        x_rotated == [c \in 1..cfg.rotary_dim |->
                        x_rot[c] * cos_row[c] + x_flip[c] * sin_row[c]]
    IN  cat(x_rotated, x_pass)

\* A bug a reader could plausibly write: the tables are read from row 0
\* whatever the offset.
apply_rotary_channels_from_row0(cfg, x, past_kv_pos_offset) ==
    LET tables == calculate_sin_cos_rotary(cfg) IN
    [a \in 1..Len(x) |->
        rotate_position(cfg, x[a], tables.cos[a], tables.sin[a])]

\* Attention.apply_rotary without a padding mask, on the channels: position a
\* of x takes rows past_kv_pos_offset : past_kv_pos_offset + x_pos of the
\* tables.
apply_rotary_channels(cfg, x, past_kv_pos_offset) ==
    LET tables == calculate_sin_cos_rotary(cfg) IN
    [a \in 1..Len(x) |->
        rotate_position(cfg, x[a], tables.cos[past_kv_pos_offset + a],
                        tables.sin[past_kv_pos_offset + a])]

\* Attention.forward from the cache append to the rotation: the keys are
\* appended to the stored ones unrotated, the queries are rotated from the
\* offset and the whole key tensor from 0.
rotary_forward(cfg, past_keys, q, k) ==
    LET kv_cache_pos_offset == Len(past_keys)
        k_all == cat(past_keys, k)
    IN  [kv_cache_pos_offset |-> kv_cache_pos_offset,
         k_all |-> k_all,
         q |-> apply_rotary_channels(cfg, q, kv_cache_pos_offset),
         k |-> apply_rotary_channels(cfg, k_all, 0)]

\* No rotation has been computed.
NoRotary ==
    [kind |-> "none", pos |-> 0, x |-> <<>>, once |-> <<>>, back |-> <<>>,
     q_in |-> <<>>, fwd |-> rotary_forward([rotary_dim |-> 2, neox |-> FALSE,
                                           n_ctx |-> NCtx], <<>>, <<>>, <<>>)]

RotaryIdle ==
    /\ rcfg = [rotary_dim |-> 2, neox |-> FALSE, n_ctx |-> NCtx]
    /\ rot_call = NoRotary

\* --------------------------------------------------------- state machines

\* The arguments and the outcome of a forward call, before any call.
NoForward ==
    [called |-> FALSE, use_cache |-> FALSE, query_ctx |-> 0, key_ctx |-> 0,
     attention_mask |-> <<>>,
     res |-> Raised("not called", attention_init, init_cache_entry, 0, <<>>, <<>>, <<>>)]

\* The attention part of the state when no Attention module is in use.
AttnIdle ==
    /\ acfg = [n_ctx |-> NCtx, attn_type |-> "global", window_size |-> 0,
               attention_dir |-> "causal", positional_embedding_type |-> "standard"]
    /\ attn = attention_init
    /\ kv = init_cache_entry
    /\ last = NoForward
    /\ gen = <<>>

\* No append call has been made yet.
NoCall ==
    [made |-> FALSE, idx |-> 0, self |-> init_cache_entry,
     new_keys |-> <<>>, new_values |-> <<>>]

\* The cache part of the state when only one cache entry is in use.
CacheIdle ==
    /\ entries = init_cache
    /\ ret = <<>>
    /\ call = NoCall
    /\ fed = [i \in Layers |-> <<<<>>, <<>>>>]
    /\ frozenAt = <<>>

\* The parts of the state that the cache, attention, ALiBi and block
\* specifications all leave alone.
ExtraIdle ==
    ShareIdle /\ FactoredIdle /\ RotaryIdle /\ ObserveIdle /\ HookedIdle

\* Sequences over S of exactly n elements.
SeqOfLen(S, n) == [1..n -> S]

CacheInit ==
    /\ entries = init_cache
    /\ ret = <<>>
    /\ call = NoCall
    /\ fed = [i \in Layers |-> <<<<>>, <<>>>>]
    /\ frozenAt = <<>>
    /\ AttnIdle
    /\ BlockIdle
    /\ AlibiIdle
    /\ ExtraIdle

\* cache[i].append(new_keys, new_values) with the keys and values of n new
\* positions, n >= 0.
EntryAppend ==
    \E i \in Layers, n \in 0..MaxPos :
      \E toks \in SeqOfLen(Tok, n) :
        LET new_keys == [p \in 1..n |-> KeyOf(toks[p])]
            new_values == [p \in 1..n |-> ValueOf(toks[p])]
            r == append(entries[i], new_keys, new_values)
        IN
        /\ Len(r.ret[1]) <= MaxPos
        /\ entries' = [entries EXCEPT ![i] = r.self]
        /\ ret' = r.ret
        /\ call' = [made |-> TRUE, idx |-> i, self |-> entries[i],
                    new_keys |-> new_keys, new_values |-> new_values]
        /\ fed' = IF entries[i].frozen THEN fed
                  ELSE [fed EXCEPT ![i] = <<fed[i][1] \o new_keys,
                                            fed[i][2] \o new_values>>]
        /\ UNCHANGED frozenAt
        /\ UNCHANGED <<attnVars, blockVars, alibiVars, extraVars>>

\* cache.freeze()
Freeze ==
    /\ entries' = freeze(entries)
    /\ frozenAt' = <<Histories(entries)>>
    /\ UNCHANGED <<ret, call, fed>>
    /\ UNCHANGED <<attnVars, blockVars, alibiVars, extraVars>>

\* cache.unfreeze()
Unfreeze ==
    /\ entries' = unfreeze(entries)
    /\ frozenAt' = <<>>
    /\ UNCHANGED <<ret, call, fed>>
    /\ UNCHANGED <<attnVars, blockVars, alibiVars, extraVars>>

CacheNext == EntryAppend \/ Freeze \/ Unfreeze

SpecCache == CacheInit /\ [][CacheNext]_vars

\* ------------------------------------------------ Attention state machine

\* The content of the residual stream at an absolute position (1-based), in
\* the runs where the content is fixed by the position.
TokAt(p) == (p % 2) + 1

\* The padding masks a caller can pass for key_ctx key positions: None (<<>>)
\* or one 0/1 entry per key position.
AttentionMasks(key_ctx) == {<<>>} \cup [1..key_ctx -> {0, 1}]

AttnInit ==
    /\ acfg \in {cfg \in AttnConfigs : ValidAttnConfig(cfg)}
    /\ attn = attention_init
    /\ kv = init_cache_entry
    /\ last = NoForward
    /\ gen = <<>>
    /\ CacheIdle
    /\ BlockIdle
    /\ AlibiIdle
    /\ ExtraIdle

\* attn.forward(query_input, key_input, value_input, past_kv_cache_entry,
\* attention_mask=...): query_ctx query positions and key_ctx new key/value
\* positions, with or without the cache entry, all within n_ctx.
AttnForward ==
    \E use_cache \in BOOLEAN, query_ctx \in 1..NCtx, key_ctx \in 1..NCtx :
      LET offset == IF use_cache THEN Len(kv.past_keys) ELSE 0 IN
      /\ ~last.called
      /\ offset + query_ctx <= acfg.n_ctx
      /\ offset + key_ctx <= acfg.n_ctx
      /\ \E attention_mask \in AttentionMasks(offset + key_ctx) :
           LET query_input == [a \in 1..query_ctx |-> TokAt(offset + a)]
               key_input == [j \in 1..key_ctx |-> TokAt(offset + j)]
               res == forward(acfg, attn, kv, use_cache, query_input,
                              key_input, key_input, attention_mask)
           IN  /\ attn' = res.self
               /\ kv' = res.entry
               /\ last' = [called |-> TRUE, use_cache |-> use_cache,
                           query_ctx |-> query_ctx, key_ctx |-> key_ctx,
                           attention_mask |-> attention_mask, res |-> res]
               /\ UNCHANGED <<acfg, gen>>
               /\ UNCHANGED <<cacheVars, blockVars, alibiVars, extraVars>>

\* The caller has taken the result of the call; the core is single-threaded
\* and synchronous, so nothing else runs between a call and its return.
AttnReturn ==
    /\ last.called
    /\ last' = NoForward
    /\ UNCHANGED <<acfg, attn, kv, gen>>
    /\ UNCHANGED <<cacheVars, blockVars, alibiVars, extraVars>>

\* cache.freeze(), seen from the entry of this layer.
AttnFreeze ==
    /\ ~last.called
    /\ kv' = [kv EXCEPT !.frozen = TRUE]
    /\ UNCHANGED <<acfg, attn, last, gen>>
    /\ UNCHANGED <<cacheVars, blockVars, alibiVars, extraVars>>

\* cache.unfreeze(), seen from the entry of this layer.
AttnUnfreeze ==
    /\ ~last.called
    /\ kv' = [kv EXCEPT !.frozen = FALSE]
    /\ UNCHANGED <<acfg, attn, last, gen>>
    /\ UNCHANGED <<cacheVars, blockVars, alibiVars, extraVars>>

\* The orchestrator starts a new session with a fresh cache.
AttnNewCache ==
    /\ ~last.called
    /\ kv' = init_cache_entry
    /\ UNCHANGED <<acfg, attn, last, gen>>
    /\ UNCHANGED <<cacheVars, blockVars, alibiVars, extraVars>>

AttnNext == AttnForward \/ AttnReturn \/ AttnFreeze \/ AttnUnfreeze \/ AttnNewCache

SpecAttn == AttnInit /\ [][AttnNext]_vars

\* ------------------------------------------- token-by-token generation

\* One generation step: the next token alone goes through forward with the
\* cache entry, which is unfrozen, and no padding mask.
GenStep ==
    \E t \in Tok :
      LET res == forward(acfg, attn, kv, TRUE, <<t>>, <<t>>, <<t>>, <<>>) IN
      /\ Len(gen) < acfg.n_ctx
      /\ attn' = res.self
      /\ kv' = res.entry
      /\ last' = [called |-> TRUE, use_cache |-> TRUE, query_ctx |-> 1,
                  key_ctx |-> 1, attention_mask |-> <<>>, res |-> res]
      /\ gen' = gen \o <<t>>
      /\ UNCHANGED acfg
      /\ UNCHANGED <<cacheVars, blockVars, alibiVars, extraVars>>

\* A new generation session: a fresh cache entry, nothing fed yet.
GenRestart ==
    /\ gen # <<>>
    /\ kv' = init_cache_entry
    /\ gen' = <<>>
    /\ last' = NoForward
    /\ UNCHANGED <<acfg, attn>>
    /\ UNCHANGED <<cacheVars, blockVars, alibiVars, extraVars>>

GenNext == GenStep \/ GenRestart

SpecGen == AttnInit /\ [][GenNext]_vars

\* --------------------------------------------------- ALiBi state machine

AlibiInit ==
    /\ acfg \in {cfg \in AttnConfigs :
                    ValidAttnConfig(cfg) /\ cfg.positional_embedding_type = "alibi"}
    /\ attn = attention_init
    /\ kv = init_cache_entry
    /\ last = NoForward
    /\ gen = <<>>
    /\ AlibiIdle
    /\ CacheIdle
    /\ BlockIdle
    /\ ExtraIdle

\* Attention.create_alibi_bias(n_heads, n_ctx), a static method.
CreateAlibiBias ==
    \E n_heads \in HeadCounts, n_ctx \in 1..(NCtx + 1) :
        /\ bias_call' = [called |-> TRUE, n_heads |-> n_heads, n_ctx |-> n_ctx,
                         alibi_bias |-> create_alibi_bias_all_heads(n_heads, n_ctx)]
        /\ UNCHANGED <<acfg, attn, kv, last, gen, get_call>>
        /\ UNCHANGED <<cacheVars, blockVars, extraVars>>

\* attn.get_cached_alibi(key_ctx), called on the instance directly.
GetCachedAlibi ==
    \E key_ctx \in 1..NCtx :
        LET r == get_cached_alibi(attn, key_ctx) IN
        /\ attn' = r.self
        /\ get_call' = [called |-> TRUE, key_ctx |-> key_ctx, before |-> attn,
                        status |-> r.status, alibi |-> r.alibi,
                        requested |-> Max(get_call.requested, key_ctx),
                        first |-> ~get_call.called]
        /\ last' = NoForward
        /\ UNCHANGED <<acfg, kv, gen, bias_call>>
        /\ UNCHANGED <<cacheVars, blockVars, extraVars>>

\* attn.forward over n positions without a cache entry, which calls
\* get_cached_alibi(key_ctx = n) on the way.
AlibiForward ==
    \E n \in 1..NCtx :
        LET input == [a \in 1..n |-> TokAt(a)]
            res == forward(acfg, attn, kv, FALSE, input, input, input, <<>>)
            r == get_cached_alibi(attn, n)
        IN
        /\ attn' = res.self
        /\ get_call' = [called |-> TRUE, key_ctx |-> n, before |-> attn,
                        status |-> r.status, alibi |-> r.alibi,
                        requested |-> Max(get_call.requested, n),
                        first |-> ~get_call.called]
        /\ last' = [called |-> TRUE, use_cache |-> FALSE, query_ctx |-> n,
                    key_ctx |-> n, attention_mask |-> <<>>, res |-> res]
        /\ UNCHANGED <<acfg, kv, gen, bias_call>>
        /\ UNCHANGED <<cacheVars, blockVars, extraVars>>

AlibiNext == CreateAlibiBias \/ GetCachedAlibi \/ AlibiForward

SpecAlibi == AlibiInit /\ [][AlibiNext]_vars

\* ------------------------------------------------- block state machine

BlockInit ==
    /\ bcfg \in BlockConfigs
    /\ block = NoBlock("not constructed")
    /\ bres = NoBlockForward
    /\ CacheIdle
    /\ AttnIdle
    /\ AlibiIdle
    /\ ExtraIdle

\* TransformerBlock(cfg, block_index)
BlockConstruct ==
    /\ block.status = "not constructed"
    /\ block' = block_init(bcfg)
    /\ UNCHANGED <<bcfg, bres>>
    /\ UNCHANGED <<cacheVars, attnVars, alibiVars, extraVars>>

\* block.forward(resid_pre, shortformer_pos_embed)
BlockForward ==
    \E resid_pre \in ResidInputs, shortformer_pos_embed \in PosEmbedInputs :
        /\ block.constructed
        /\ bres' = [called |-> TRUE, resid_pre |-> resid_pre,
                    shortformer_pos_embed |-> shortformer_pos_embed,
                    res |-> block_forward(bcfg, block, resid_pre,
                                          shortformer_pos_embed)]
        /\ UNCHANGED <<bcfg, block>>
        /\ UNCHANGED <<cacheVars, attnVars, alibiVars, extraVars>>

BlockNext == BlockConstruct \/ BlockForward

SpecBlock == BlockInit /\ [][BlockNext]_vars

\* ------------------------------- passes interleaved on one cache entry

\* An entry with a history of at most one position, frozen or not, that no
\* pass has touched yet.
ShareInit ==
    /\ \E n \in 0..1, frozen \in BOOLEAN :
         \E toks \in SeqOfLen(Tok, n) :
           LET entry == [past_keys |-> [p \in 1..n |-> KeyOf(toks[p])],
                         past_values |-> [p \in 1..n |-> ValueOf(toks[p])],
                         frozen |-> frozen]
           IN  shared = [entry |-> entry, initial |-> entry,
                         overlapped |-> FALSE]
    /\ passes = [p \in Passes |-> NoPass]
    /\ FactoredIdle
    /\ RotaryIdle
    /\ ObserveIdle
    /\ HookedIdle
    /\ CacheIdle
    /\ AttnIdle
    /\ BlockIdle
    /\ AlibiIdle

\* The passes after pass p has moved to pc with the changed locals, and
\* whether two passes are then both between their read of the stored length
\* and the end of their store.
Step(p, rec) == [passes EXCEPT ![p] = rec]

Overlap(ps) == \E p, q \in Passes : p # q /\ InAppend(ps[p].pc) /\ InAppend(ps[q].pc)

\* attn.forward(..., past_kv_cache_entry=shared entry) is called with n new
\* positions whose content tells the passes apart.  On a frozen entry a pass
\* that is done may be called again; on an unfrozen entry each pass runs once.
ShareCall ==
    \E p \in Passes, n \in 1..2 :
        /\ passes[p].pc = "idle" \/ (passes[p].pc = "done" /\ shared.entry.frozen)
        /\ passes' = Step(p, [NoPass EXCEPT
                                !.pc = "called",
                                !.new_keys = [a \in 1..n |-> KeyOf(p)],
                                !.new_values = [a \in 1..n |-> ValueOf(p)],
                                !.status = "running"])
        /\ UNCHANGED shared
        /\ UNCHANGED <<cacheVars, attnVars, blockVars, alibiVars, fm_call, rcfg, rot_call,
                     obs, hk>>

\* kv_cache_pos_offset = past_kv_cache_entry.past_keys.size(1)
ShareReadOffset ==
    \E p \in Passes :
        LET ps == Step(p, [passes[p] EXCEPT
                             !.pc = "offset",
                             !.kv_cache_pos_offset = read_offset(shared.entry)])
        IN
        /\ passes[p].pc = "called"
        /\ passes' = ps
        /\ shared' = [shared EXCEPT !.overlapped = @ \/ Overlap(ps)]
        /\ UNCHANGED <<cacheVars, attnVars, blockVars, alibiVars, fm_call, rcfg, rot_call,
                     obs, hk>>

\* append: updated_keys = torch.cat([self.past_keys, new_keys], dim=1)
ShareCatKeys ==
    \E p \in Passes :
        /\ passes[p].pc = "offset"
        /\ passes' = Step(p, [passes[p] EXCEPT
                                !.pc = "cat_keys",
                                !.updated_keys = cat(shared.entry.past_keys,
                                                     passes[p].new_keys)])
        /\ UNCHANGED shared
        /\ UNCHANGED <<cacheVars, attnVars, blockVars, alibiVars, fm_call, rcfg, rot_call,
                     obs, hk>>

\* append: updated_values = torch.cat([self.past_values, new_values], dim=1)
ShareCatValues ==
    \E p \in Passes :
        /\ passes[p].pc = "cat_keys"
        /\ passes' = Step(p, [passes[p] EXCEPT
                                !.pc = "cat_values",
                                !.updated_values = cat(shared.entry.past_values,
                                                       passes[p].new_values)])
        /\ UNCHANGED shared
        /\ UNCHANGED <<cacheVars, attnVars, blockVars, alibiVars, fm_call, rcfg, rot_call,
                     obs, hk>>

\* append: if not self.frozen: self.past_keys = updated_keys.  On a frozen
\* entry the test fails and append returns.
ShareStoreKeys ==
    \E p \in Passes :
        /\ passes[p].pc = "cat_values"
        /\ passes' = Step(p, [passes[p] EXCEPT
                                !.pc = IF shared.entry.frozen THEN "returned"
                                       ELSE "stored_keys"])
        /\ shared' = [shared EXCEPT
                        !.entry = append_store_keys(@, passes[p].updated_keys)]
        /\ UNCHANGED <<cacheVars, attnVars, blockVars, alibiVars, fm_call, rcfg, rot_call,
                     obs, hk>>

\* append: self.past_values = updated_values; return updated_keys,
\* updated_values.
ShareStoreValues ==
    \E p \in Passes :
        /\ passes[p].pc = "stored_keys"
        /\ passes' = Step(p, [passes[p] EXCEPT !.pc = "returned"])
        /\ shared' = [shared EXCEPT
                        !.entry = append_store_values(@, passes[p].updated_values)]
        /\ UNCHANGED <<cacheVars, attnVars, blockVars, alibiVars, fm_call, rcfg, rot_call,
                     obs, hk>>

\* apply_causal_mask: the length assertion, over the keys append returned and
\* the offset read before append.
ShareLengthCheck ==
    \E p \in Passes :
        /\ passes[p].pc = "returned"
        /\ passes' = Step(p, [passes[p] EXCEPT
                                !.pc = "done",
                                !.status = length_assertion(
                                    Len(passes[p].new_keys),
                                    passes[p].kv_cache_pos_offset,
                                    Len(passes[p].updated_keys))])
        /\ UNCHANGED shared
        /\ UNCHANGED <<cacheVars, attnVars, blockVars, alibiVars, fm_call, rcfg, rot_call,
                     obs, hk>>

ShareNext ==
    \/ ShareCall \/ ShareReadOffset \/ ShareCatKeys \/ ShareCatValues
    \/ ShareStoreKeys \/ ShareStoreValues \/ ShareLengthCheck

SpecShare == ShareInit /\ [][ShareNext]_vars

\* ------------------------------------ indexing the low-rank circuit views

\* The indices over at most n leading dimensions: ints 0..2 and full slices.
Indices(n) == UNION {[1..m -> {IntItem(0), IntItem(1), IntItem(2), Slice}] : m \in 0..n}

FactoredInit ==
    /\ FactoredIdle
    /\ ShareIdle
    /\ RotaryIdle
    /\ ObserveIdle
    /\ HookedIdle
    /\ CacheIdle
    /\ AttnIdle
    /\ BlockIdle
    /\ AlibiIdle

\* attn.OV[idx], attn.QK[idx] for an Attention with n_heads heads, or
\* sample_factored_matrix[idx].
FactoredGetItem ==
    \E view \in {"OV", "QK", "sample"}, n_heads \in 1..3 :
        LET fm == CASE view = "OV" -> OV(n_heads)
                    [] view = "QK" -> QK(n_heads)
                    [] OTHER -> sample_factored_matrix
        IN
        \E idx \in Indices(Len(fm.A.dims)) :
            /\ fm_call' = [called |-> TRUE, view |-> view,
                           n_heads |-> IF view = "sample" THEN 0 ELSE n_heads,
                           fm |-> fm, idx |-> idx, res |-> getitem(fm, idx)]
            /\ UNCHANGED <<shared, passes, rcfg, rot_call, obs, hk>>
            /\ UNCHANGED <<cacheVars, attnVars, blockVars, alibiVars>>

FactoredNext == FactoredGetItem

SpecFactored == FactoredInit /\ [][FactoredNext]_vars

\* ------------------------------------------------ rotary state machine

\* The channels of a position, for the round trip.
Vectors == [1..DHead -> {-1, 2}]

\* The channels of the query / key projected at an absolute position
\* (0-based), all different.
QueryAt(p) == [c \in 1..DHead |-> 10 * (p + 1) + c]
KeyAt(p) == [c \in 1..DHead |-> 100 + 10 * (p + 1) + c]

RotaryInit ==
    /\ rcfg \in RotaryConfigs
    /\ rot_call = NoRotary
    /\ ShareIdle
    /\ FactoredIdle
    /\ ObserveIdle
    /\ HookedIdle
    /\ CacheIdle
    /\ AttnIdle
    /\ BlockIdle
    /\ AlibiIdle

\* The rotation of one position's channels with the angles of table row pos,
\* then of the outcome with the negated angles: cos(-t) = cos(t) and
\* sin(-t) = -sin(t).
RotaryRoundTrip ==
    \E pos \in 0..(rcfg.n_ctx - 1), x \in Vectors :
        LET tables == calculate_sin_cos_rotary(rcfg)
            cos_row == tables.cos[pos + 1]
            sin_row == tables.sin[pos + 1]
            once == rotate_position(rcfg, x, cos_row, sin_row)
            back == rotate_position(rcfg, once, cos_row,
                                    [c \in 1..rcfg.rotary_dim |-> -sin_row[c]])
        IN
        /\ rot_call' = [NoRotary EXCEPT !.kind = "round trip", !.pos = pos,
                                        !.x = x, !.once = once, !.back = back]
        /\ UNCHANGED rcfg
        /\ UNCHANGED <<shared, passes, fm_call, obs, hk>>
        /\ UNCHANGED <<cacheVars, attnVars, blockVars, alibiVars>>

\* A forward pass over x_pos new positions with o positions in the cache
\* entry and no padding mask, up to the rotation.
RotaryForward ==
    \E o \in 0..(rcfg.n_ctx - 1), x_pos \in 1..rcfg.n_ctx :
        LET past_keys == [b \in 1..o |-> KeyAt(b - 1)]
            q == [a \in 1..x_pos |-> QueryAt(o + a - 1)]
            k == [a \in 1..x_pos |-> KeyAt(o + a - 1)]
        IN
        /\ o + x_pos <= rcfg.n_ctx
        /\ rot_call' = [NoRotary EXCEPT
                          !.kind = "forward", !.q_in = q,
                          !.fwd = rotary_forward(rcfg, past_keys, q, k)]
        /\ UNCHANGED rcfg
        /\ UNCHANGED <<shared, passes, fm_call, obs, hk>>
        /\ UNCHANGED <<cacheVars, attnVars, blockVars, alibiVars>>

RotaryNext == RotaryRoundTrip \/ RotaryForward

SpecRotary == RotaryInit /\ [][RotaryNext]_vars

\* ------------------------------------------- observed block state machine

\* The block configurations an observer is attached to: every combination of
\* the flags that choose the composition and the hooked copies.
ObserveConfigs ==
    {cfg \in BlockConfigs :
        /\ cfg.normalization_type = "LN"
        /\ cfg.positional_embedding_type = "standard"
        /\ cfg.act_fn = "relu"
        /\ ~cfg.use_attn_result}

\* A constructed block, no call made.
ObserveInit ==
    /\ bcfg \in ObserveConfigs
    /\ block = block_init(bcfg)
    /\ bres = NoBlockForward
    /\ obs = NoObserved
    /\ ShareIdle
    /\ FactoredIdle
    /\ RotaryIdle
    /\ HookedIdle
    /\ CacheIdle
    /\ AttnIdle
    /\ AlibiIdle

\* block.forward(resid_pre) with an observer attached to one hook point, or
\* none.
ObservedForward ==
    \E resid_pre \in ResidInputs, observer \in Observers :
        /\ block.constructed
        /\ obs' = [called |-> TRUE, resid_pre |-> resid_pre,
                   observer |-> observer,
                   res |-> block_forward_observed(bcfg, block, resid_pre,
                                                  observer)]
        /\ UNCHANGED <<shared, passes, fm_call, rcfg, rot_call, hk>>
        /\ UNCHANGED <<cacheVars, attnVars, blockVars, alibiVars>>

ObserveNext == ObservedForward

SpecObserve == ObserveInit /\ [][ObserveNext]_vars

\* --------------------------------------- observed attention state machine

\* An Attention with standard or rotary positional embeddings and an empty
\* unfrozen cache entry.
HookedInit ==
    /\ acfg \in {cfg \in AttnConfigs :
                    /\ ValidAttnConfig(cfg)
                    /\ cfg.positional_embedding_type \in {"standard", "rotary"}}
    /\ attn = attention_init
    /\ kv = init_cache_entry
    /\ last = NoForward
    /\ gen = <<>>
    /\ hk = NoHooked
    /\ ShareIdle
    /\ FactoredIdle
    /\ RotaryIdle
    /\ ObserveIdle
    /\ CacheIdle
    /\ BlockIdle
    /\ AlibiIdle

\* attn.forward over n new positions with the entry kv and an observer at one
\* hook point, or none.
HookedForward ==
    \E n \in 1..2, observer \in AttnObservers :
        LET offset == Len(kv.past_keys)
            input == [a \in 1..n |-> TokAt(offset + a)]
            res == forward_hooked(acfg, kv, input, input, input, observer)
        IN
        /\ offset + n <= acfg.n_ctx
        /\ kv' = res.entry
        /\ hk' = [called |-> TRUE, observer |-> observer, before |-> kv,
                  left_keys |-> IF kv.frozen THEN hk.left_keys
                                ELSE hk.left_keys \o res.left_hook_k,
                  left_values |-> IF kv.frozen THEN hk.left_values
                                  ELSE hk.left_values \o res.left_hook_v,
                  res |-> res]
        /\ UNCHANGED <<acfg, attn, last, gen>>
        /\ UNCHANGED <<shared, passes, fm_call, rcfg, rot_call, obs>>
        /\ UNCHANGED <<cacheVars, blockVars, alibiVars>>

\* cache.freeze() / cache.unfreeze(), seen from the entry of this layer.
HookedFreeze ==
    /\ kv' = [kv EXCEPT !.frozen = ~@]
    /\ UNCHANGED <<acfg, attn, last, gen, hk>>
    /\ UNCHANGED <<shared, passes, fm_call, rcfg, rot_call, obs>>
    /\ UNCHANGED <<cacheVars, blockVars, alibiVars>>

\* A new session with a fresh cache entry.
HookedNewCache ==
    /\ hk.called
    /\ kv' = init_cache_entry
    /\ hk' = NoHooked
    /\ UNCHANGED <<acfg, attn, last, gen>>
    /\ UNCHANGED <<shared, passes, fm_call, rcfg, rot_call, obs>>
    /\ UNCHANGED <<cacheVars, blockVars, alibiVars>>

HookedNext == HookedForward \/ HookedFreeze \/ HookedNewCache

SpecHooked == HookedInit /\ [][HookedNext]_vars

\* ------------------------------------------------------------------ C1

\* C1: append returns (stored ++ new) for keys and for values whatever the
\* frozen flag; the stored history becomes that concatenation iff the entry
\* was not frozen; and while the cache is frozen the stored histories stay
\* what they were when freeze() was called.
C1_AppendReturnsConcat ==
    /\ call.made =>
        /\ ret = <<call.self.past_keys \o call.new_keys,
                   call.self.past_values \o call.new_values>>
        /\ call.self.frozen =>
             /\ entries[call.idx].past_keys = call.self.past_keys
             /\ entries[call.idx].past_values = call.self.past_values
        /\ ~call.self.frozen =>
             /\ entries[call.idx].past_keys = ret[1]
             /\ entries[call.idx].past_values = ret[2]
    /\ (\A i \in Layers : entries[i].frozen) /\ frozenAt # <<>>
          => Histories(entries) = frozenAt[1]

\* A frozen entry holding history has been appended to with a non-empty
\* chunk: the call returned more than is stored.
C1_Witness ==
    /\ call.made
    /\ call.self.frozen
    /\ call.self.past_keys # <<>>
    /\ call.new_keys # <<>>
    /\ frozenAt # <<>>
    /\ Len(ret[1]) > Len(entries[call.idx].past_keys)

\* ------------------------------------------------------------------ C2

\* C2: on an unfrozen entry, appending chunk after chunk (chunks of zero
\* positions included) stores the same history as one append of the
\* concatenation of the chunks; an append of zero positions leaves the stored
\* history as it was and returns it.
C2_ChunkedAppendIsOneAppend ==
    /\ \A i \in Layers :
         LET once == append(init_cache_entry, fed[i][1], fed[i][2]).self IN
         /\ entries[i].past_keys = once.past_keys
         /\ entries[i].past_values = once.past_values
    /\ call.made /\ ~call.self.frozen /\ call.new_keys = <<>> =>
         /\ entries[call.idx].past_keys = call.self.past_keys
         /\ entries[call.idx].past_values = call.self.past_values
         /\ ret = <<call.self.past_keys, call.self.past_values>>

\* A non-empty chunk has been appended to an unfrozen entry that already
\* held a non-empty history.
C2_Witness ==
    /\ call.made
    /\ ~call.self.frozen
    /\ call.self.past_keys # <<>>
    /\ call.new_keys # <<>>
    /\ Len(entries[call.idx].past_keys) = MaxPos

\* ------------------------------------------------------------------ C3

\* C3: freeze() leaves every entry frozen, unfreeze() leaves every entry
\* unfrozen, and whatever the sequence of freeze, unfreeze and append calls
\* all entries of the cache carry the same frozen flag.
C3_EntriesShareFrozenFlag ==
    /\ \A i, j \in Layers : entries[i].frozen = entries[j].frozen
    /\ frozenAt # <<>> => \A i \in Layers : entries[i].frozen
    /\ frozenAt = <<>> => \A i \in Layers : ~entries[i].frozen

\* The cache was frozen with history in it and has been appended to since.
C3_Witness ==
    /\ \A i \in Layers : entries[i].frozen
    /\ \E i \in Layers : entries[i].past_keys # <<>>
    /\ call.made /\ call.self.frozen

\* ------------------------------------------------------------------ C4

\* Whether the query at absolute position i may attend to key position j
\* under the causal rule and, for local attention, the window (1-based both).
CausalAllowed(cfg, i, j) ==
    /\ j <= i
    /\ cfg.attn_type = "local" => i - j < cfg.window_size

\* C4: in a causal forward call with cache offset o, the score of query row
\* a and key column j is left unmasked only if j <= a + o and, for local
\* attention, (a + o) - j < window_size; every other score is -inf and its
\* attention weight is zero. Without a padding mask the unmasked keys of a
\* row are exactly those allowed for its absolute position a + o.
C4_CausalMaskOnlyPastAndWindow ==
    last.called /\ last.res.status = "ok" /\ acfg.attention_dir = "causal" =>
        LET r == last.res
            o == r.kv_cache_pos_offset
        IN  \A a \in 1..Len(r.q), j \in 1..Len(r.k) :
              /\ r.final_mask[a][j] => CausalAllowed(acfg, a + o, j)
              /\ last.attention_mask = <<>> =>
                    (r.final_mask[a][j] <=> CausalAllowed(acfg, a + o, j))
              /\ IsFin(r.attn_scores[a][j]) <=> r.final_mask[a][j]
              /\ ~r.final_mask[a][j] =>
                    /\ r.attn_scores[a][j] = IGNORE
                    /\ r.pattern[a][j].num = 0

\* A local-attention call with a cache offset in which one key is masked
\* for lying in the future and another for lying outside the window.
C4_Witness ==
    /\ last.called /\ last.res.status = "ok"
    /\ acfg.attention_dir = "causal" /\ acfg.attn_type = "local"
    /\ last.attention_mask = <<>>
    /\ last.res.kv_cache_pos_offset >= 1
    /\ \E a \in 1..Len(last.res.q), j \in 1..Len(last.res.k) :
          j > a + last.res.kv_cache_pos_offset /\ ~last.res.final_mask[a][j]
    /\ \E a \in 1..Len(last.res.q), j \in 1..Len(last.res.k) :
          /\ j <= a + last.res.kv_cache_pos_offset
          /\ ~last.res.final_mask[a][j]
          /\ last.res.pattern[a][j].num = 0

\* ------------------------------------------------------------------ C5

\* What decides the output at the last query position of a forward call: the
\* rotated query, the rotated keys, the values, and that row of the ALiBi
\* bias, of the mask, of the scores and of the pattern.
FinalPosition(r) ==
    LET a == Len(r.q) IN
    [q |-> r.q[a], k |-> r.k, v |-> r.v,
     alibi |-> IF r.alibi = <<>> THEN <<>> ELSE r.alibi[a],
     final_mask |-> IF r.final_mask = <<>> THEN <<>> ELSE r.final_mask[a],
     attn_scores |-> r.attn_scores[a],
     pattern |-> r.pattern[a]]

\* A single forward pass over all the tokens fed so far, without a cache.
FullPass == forward(acfg, attn, init_cache_entry, FALSE, gen, gen, gen, <<>>)

\* C5: for a causal model, after T tokens were fed one at a time through an
\* initially empty unfrozen cache entry, the last step produced an output and
\* its final position was computed from the same keys, values, mask, rotary
\* rows, ALiBi bias and pattern as the final position of one pass over the T
\* tokens without a cache, whatever the positional-embedding scheme.
C5_IncrementalMatchesFullPass ==
    acfg.attention_dir = "causal" /\ gen # <<>> =>
        /\ last.res.status = "ok"
        /\ FullPass.status = "ok"
        /\ FinalPosition(last.res) = FinalPosition(FullPass)

\* ------------------------------------------------------------------ C6

\* C6: a forward call whose query length plus cache offset differs from its
\* key length fails with the assertion of apply_causal_mask and returns no
\* output.
C6_LengthMismatchRaisesAssertion ==
    /\ last.called
    /\ Len(last.res.q) + last.res.kv_cache_pos_offset # Len(last.res.k)
    => last.res.status = "AssertionError"

\* ------------------------------------------------------------------ C7

\* The numerators of a pattern row.
Nums(row) == [j \in DOMAIN row |-> row[j].num]

\* C7: every pattern row is either a distribution over the unmasked keys of
\* the row (positive exactly there, summing to 1) or, when every key of the
\* row is masked, all zeros; no NaN is in the pattern.
C7_PatternRowsSumToOneOrAreZero ==
    last.called /\ last.res.status = "ok" =>
        LET r == last.res IN
        \A a \in 1..Len(r.q) :
            LET row == r.pattern[a]
                unmasked == {j \in 1..Len(r.k) : IsFin(r.attn_scores[a][j])}
            IN  /\ \A j \in 1..Len(r.k) : ~IsNaN(row[j])
                /\ unmasked # {} =>
                     /\ \A j \in 1..Len(r.k) :
                          /\ row[j].den = row[1].den
                          /\ row[j].num > 0 <=> j \in unmasked
                     /\ SumSeq(Nums(row)) = row[1].den
                /\ unmasked = {} => \A j \in 1..Len(r.k) : row[j] = Zero

\* A call that returned a pattern with one row masked throughout and
\* another row that is not.
C7_Witness ==
    /\ last.called /\ last.res.status = "ok"
    /\ \E a \in 1..Len(last.res.q) :
          /\ \A j \in 1..Len(last.res.k) : ~IsFin(last.res.attn_scores[a][j])
          /\ \A j \in 1..Len(last.res.k) : last.res.pattern[a][j] = Zero
    /\ \E a \in 1..Len(last.res.q) :
          Cardinality({j \in 1..Len(last.res.k) :
                          last.res.pattern[a][j].num > 0}) >= 2

\* ------------------------------------------------------------------ C8

\* C8: in a causal call with a padding mask, the final mask is the
\* conjunction of the causal (and local) rule and the padding mask, and a key
\* position the padding mask marks 0 gets weight exactly zero from every
\* query position.
C8_PaddedKeysGetZeroWeight ==
    /\ last.called /\ last.res.status = "ok"
    /\ acfg.attention_dir = "causal" /\ last.attention_mask # <<>>
    => LET r == last.res
           o == r.kv_cache_pos_offset
       IN  \A a \in 1..Len(r.q), j \in 1..Len(r.k) :
             /\ r.final_mask[a][j] <=>
                  (CausalAllowed(acfg, a + o, j) /\ last.attention_mask[j] # 0)
             /\ last.attention_mask[j] = 0 => r.pattern[a][j].num = 0
             /\ last.attention_mask[j] = 0 => ~IsNaN(r.pattern[a][j])

\* A causal call with a cache offset whose padding mask removes a key that
\* the causal rule allows, from a row that keeps another key.
C8_Witness ==
    /\ last.called /\ last.res.status = "ok"
    /\ acfg.attention_dir = "causal" /\ last.attention_mask # <<>>
    /\ last.res.kv_cache_pos_offset >= 1
    /\ \E a \in 1..Len(last.res.q), j, j2 \in 1..Len(last.res.k) :
          /\ CausalAllowed(acfg, a + last.res.kv_cache_pos_offset, j)
          /\ last.attention_mask[j] = 0
          /\ last.res.pattern[a][j].num = 0
          /\ last.res.pattern[a][j2].num > 0

\* ------------------------------------------------------------------ C9

\* The submodules and hook points of the feed-forward step.
FeedForwardSteps == {"ln2", "mlp", "hook_mlp_in", "hook_mlp_out"}

\* C9: with attn_only set, whatever the other switches, forward evaluates no
\* feed-forward step and returns hook_resid_post(resid_pre + attn_out).
C9_AttnOnlySkipsFeedForward ==
    bres.called /\ bcfg.attn_only =>
        /\ bres.res.status = "ok"
        /\ \A n \in 1..Len(bres.res.trace) :
              bres.res.trace[n] \notin FeedForwardSteps
        /\ bres.res.trace[Len(bres.res.trace)] = "hook_resid_post"
        /\ bres.res.resid_post = plus(bres.resid_pre, bres.res.attn_out)

\* ------------------------------------------------------------------ C10

\* What the attention module is given in the block: ln1 of the attention
\* input, the positional embedding added to the query and key inputs only.
AttnOfLn1(cfg, resid_pre, shortformer_pos_embed) ==
    LET heads == cfg.use_attn_in \/ cfg.use_split_qkv_input
        x == IF heads THEN <<"heads">> \o resid_pre ELSE resid_pre
        pe == IF heads /\ shortformer_pos_embed # <<>>
              THEN <<"heads">> \o shortformer_pos_embed
              ELSE shortformer_pos_embed
        n == IF cfg.normalization_type = "None" THEN x ELSE <<"ln1">> \o x
        qk == IF pe = <<>> THEN n ELSE <<"+">> \o n \o pe
    IN  <<"attn">> \o qk \o qk \o n

\* C10: in the default composition (not attention-only, not parallel) a
\* forward call that returns has computed attn_out = attn(ln1(residual)),
\* resid_mid = resid_pre + attn_out, mlp_out = mlp(ln2(resid_mid)) and
\* returned resid_post = resid_mid + mlp_out.
C10_DefaultComposition ==
    /\ bres.called /\ bres.res.status = "ok"
    /\ ~bcfg.attn_only /\ ~bcfg.parallel_attn_mlp
    => LET r == bres.res
           ln2 == IF bcfg.normalization_type = "None"
                  THEN r.resid_mid ELSE <<"ln2">> \o r.resid_mid
       IN  /\ r.attn_out = AttnOfLn1(bcfg, bres.resid_pre, bres.shortformer_pos_embed)
           /\ r.resid_mid = <<"+">> \o bres.resid_pre \o r.attn_out
           /\ r.mlp_out = <<"mlp">> \o ln2
           /\ r.resid_post = <<"+">> \o r.resid_mid \o r.mlp_out

\* A default-composition call with a real normalization has returned.
C10_Witness ==
    /\ bres.called /\ bres.res.status = "ok"
    /\ ~bcfg.attn_only /\ ~bcfg.parallel_attn_mlp
    /\ bcfg.normalization_type = "LN"
    /\ bcfg.use_hook_mlp_in
    /\ bres.res.resid_post # <<>>
    /\ bres.res.trace[Len(bres.res.trace)] = "hook_resid_post"

\* ------------------------------------------------------------------ C11

\* C11: in the parallel composition (parallel_attn_mlp, not attention-only) a
\* forward call that returns has given attention ln1 of the residual and the
\* MLP ln2 of the same resid_pre, not of resid_pre + attn_out, has returned
\* resid_post = resid_pre + attn_out + mlp_out, and the block has no
\* hook_resid_mid and fires none.
C11_ParallelComposition ==
    /\ bres.called /\ bres.res.status = "ok"
    /\ bcfg.parallel_attn_mlp /\ ~bcfg.attn_only
    => LET r == bres.res
           ln2 == IF bcfg.normalization_type = "None"
                  THEN bres.resid_pre ELSE <<"ln2">> \o bres.resid_pre
       IN  /\ r.attn_out = AttnOfLn1(bcfg, bres.resid_pre, bres.shortformer_pos_embed)
           /\ r.mlp_in = bres.resid_pre
           /\ r.mlp_out = <<"mlp">> \o ln2
           /\ r.resid_post = <<"+", "+">> \o bres.resid_pre \o r.attn_out \o r.mlp_out
           /\ r.resid_mid = <<>>
           /\ "hook_resid_mid" \notin block.attrs
           /\ "hook_resid_mid" \notin block.hook_points
           /\ \A n \in 1..Len(r.trace) : r.trace[n] # "hook_resid_mid"

\* A parallel-composition call with a real normalization has returned.
C11_Witness ==
    /\ bres.called /\ bres.res.status = "ok"
    /\ bcfg.parallel_attn_mlp /\ ~bcfg.attn_only
    /\ bcfg.normalization_type = "LN"
    /\ bres.res.mlp_out = <<"mlp", "ln2">> \o bres.resid_pre
    /\ bres.res.trace[Len(bres.res.trace)] = "hook_resid_post"

\* ------------------------------------------------------------------ C12

\* C12: whatever the configuration, the tensor a forward call returns has
\* the shape [batch, pos, d_model] of the residual it was given, and so have
\* the attention output, resid_mid, the MLP input and the MLP output: the
\* head axis added for the per-head inputs reaches none of them.
C12_OutputShapeIsInputShape ==
    bres.called /\ bres.res.status = "ok" =>
        LET r == bres.res IN
        /\ shape(bcfg, r.resid_post) = shape(bcfg, bres.resid_pre)
        /\ shape(bcfg, r.resid_post) = <<"batch", "pos", "d_model">>
        /\ \A t \in {r.attn_out, r.resid_mid, r.mlp_in, r.mlp_out} :
              t # <<>> => shape(bcfg, t) = <<"batch", "pos", "d_model">>

\* A call in split mode with the explicit per-head result and a positional
\* embedding has returned from the sequential composition.
C12_Witness ==
    /\ bres.called /\ bres.res.status = "ok"
    /\ bcfg.use_split_qkv_input /\ bcfg.use_attn_result
    /\ ~bcfg.attn_only /\ ~bcfg.parallel_attn_mlp
    /\ bres.shortformer_pos_embed # <<>>
    /\ bres.res.attn_out[2] = "+" /\ bres.res.attn_out[4] = "heads"
    /\ Len(shape(bcfg, bres.res.resid_post)) = 3

\* ------------------------------------------------------------------ C13

\* How many times a symbol occurs in a term.
Occurrences(t, sym) == Cardinality({i \in 1..Len(t) : t[i] = sym})

\* C13: in a forward call given a shortformer positional embedding that
\* returns, in shared and in per-head mode, attention is given
\* ln1(input) + embedding as query and as key input and ln1(input) alone as
\* value input; the MLP input and the residual sums contain the embedding
\* nowhere but inside the query and key inputs of that attention call.
C13_PosEmbedOnQueryAndKeyOnly ==
    bres.called /\ bres.res.status = "ok" /\ bres.shortformer_pos_embed # <<>> =>
        LET r == bres.res
            heads == bcfg.use_attn_in \/ bcfg.use_split_qkv_input
            x == IF heads THEN <<"heads">> \o bres.resid_pre ELSE bres.resid_pre
            pe == IF heads THEN <<"heads">> \o bres.shortformer_pos_embed
                  ELSE bres.shortformer_pos_embed
            n == IF bcfg.normalization_type = "None" THEN x ELSE <<"ln1">> \o x
        IN  /\ r.attn_out = <<"attn", "+">> \o n \o pe \o <<"+">> \o n \o pe \o n
            /\ Occurrences(n, "pos") = 0
            /\ Occurrences(r.attn_out, "pos") = 2
            /\ \A t \in {r.resid_mid, r.mlp_in, r.mlp_out, r.resid_post} :
                  Occurrences(t, "pos") = 2 * Occurrences(t, "attn")
            /\ bres.res.mlp_in \in {<<>>, bres.resid_pre,
                                    <<"+">> \o bres.resid_pre \o r.attn_out}

\* A per-head call of a shortformer block with a positional embedding has
\* returned from the sequential composition.
C13_Witness ==
    /\ bres.called /\ bres.res.status = "ok"
    /\ bres.shortformer_pos_embed = <<"pos">>
    /\ bcfg.positional_embedding_type = "shortformer"
    /\ bcfg.use_split_qkv_input
    /\ ~bcfg.attn_only /\ ~bcfg.parallel_attn_mlp
    /\ Occurrences(bres.res.resid_post, "pos") = 4
    /\ Occurrences(bres.res.attn_out, "heads") = 5

\* ------------------------------------------------------------------ C14

\* The hook points of a trace, without the submodule calls.
Hooks(trace) ==
    SelectSeq(trace, LAMBDA e : e \notin {"ln1", "ln2", "attn", "mlp"})

\* The order in which the hook points of a block with this config fire.
HookOrder(cfg) ==
    <<"hook_resid_pre">>
    \o (IF cfg.use_attn_in THEN <<"hook_attn_in">> ELSE <<>>)
    \o (IF cfg.use_split_qkv_input
        THEN <<"hook_q_input", "hook_k_input", "hook_v_input">> ELSE <<>>)
    \o <<"hook_q", "hook_k", "hook_v">>
    \o (IF cfg.positional_embedding_type = "rotary"
        THEN <<"hook_rot_q", "hook_rot_k">> ELSE <<>>)
    \o <<"hook_attn_scores", "hook_pattern", "hook_z">>
    \o (IF cfg.use_attn_result THEN <<"hook_result">> ELSE <<>>)
    \o <<"hook_attn_out">>
    \o (IF ~cfg.attn_only /\ ~cfg.parallel_attn_mlp
        THEN <<"hook_resid_mid">> ELSE <<>>)
    \o (IF cfg.attn_only THEN <<>>
        ELSE (IF cfg.use_hook_mlp_in THEN <<"hook_mlp_in">> ELSE <<>>)
             \o <<"hook_pre">>
             \o (IF cfg.act_fn = "solu_ln" THEN <<"hook_mid">> ELSE <<>>)
             \o <<"hook_post", "hook_mlp_out">>)
    \o <<"hook_resid_post">>

AttentionHookNames ==
    {"hook_q", "hook_k", "hook_v", "hook_rot_q", "hook_rot_k",
     "hook_attn_scores", "hook_pattern", "hook_z", "hook_result", "hook_attn_out"}

MlpHookNames == {"hook_mlp_in", "hook_pre", "hook_mid", "hook_post", "hook_mlp_out"}

\* C14: the hook points a forward call fires are, in order, those of the
\* fixed order of its config: all of them when the call returns, and a
\* prefix of them when it raises; so the order is the same on every call.
\* In the parallel composition every attention hook precedes every MLP hook.
C14_HooksFireInFixedOrder ==
    bres.called =>
        LET fired == Hooks(bres.res.trace)
            order == HookOrder(bcfg)
        IN  /\ Len(fired) <= Len(order)
            /\ fired = SubSeq(order, 1, Len(fired))
            /\ bres.res.status = "ok" => fired = order
            /\ bcfg.parallel_attn_mlp =>
                  \A m, n \in 1..Len(fired) :
                      fired[m] \in AttentionHookNames /\ fired[n] \in MlpHookNames
                        => m < n

\* A call of a rotary block with every optional hook point enabled has
\* returned, having fired twenty-two hook points.
C14_Witness ==
    /\ bres.called /\ bres.res.status = "ok"
    /\ bcfg.positional_embedding_type = "rotary"
    /\ bcfg.use_attn_in /\ bcfg.use_split_qkv_input /\ bcfg.use_attn_result
    /\ bcfg.use_hook_mlp_in /\ bcfg.act_fn = "solu_ln"
    /\ ~bcfg.attn_only /\ ~bcfg.parallel_attn_mlp
    /\ Len(Hooks(bres.res.trace)) = Len(HookOrder(bcfg))
    /\ Cardinality({Hooks(bres.res.trace)[n] : n \in 1..Len(Hooks(bres.res.trace))})
          = Len(HookOrder(bcfg))

\* ------------------------------------------------------------------ C15

\* The hook points the block and its attention module have constructed.
BlockAndAttentionHookPoints ==
    block.hook_points \ {"hook_pre", "hook_mid", "hook_post"}

\* C15: every hook point the block and its attention module constructed is
\* fired by every forward call of the block.
C15_EveryConstructedHookFires ==
    bres.called =>
        \A h \in BlockAndAttentionHookPoints :
            \E n \in 1..Len(bres.res.trace) : bres.res.trace[n] = h

\* ------------------------------------------------------------------ C16

\* C16: a config whose normalization type is not one of LN, LNPre, RMS,
\* RMSPre and None yields no block object, and so no forward call.
C16_UnrecognizedNormalizationFailsAtConstruction ==
    bcfg.normalization_type \notin {"LN", "LNPre", "RMS", "RMSPre", "None"} =>
        /\ ~block.constructed
        /\ block.status # "ok"
        /\ ~bres.called

\* ------------------------------------------------------------------ C17

\* The activation selectors the claim lists as recognized.
RecognizedActFns == {"relu", "gelu", "silu", "gelu_new", "gelu_fast", "solu_ln"}

\* C17: once the constructor of a block that has an MLP has run, it has
\* raised ValueError, leaving no object, if and only if the activation
\* selector is not a recognized one; a constructed MLP has its activation
\* function, and a forward call never raises for an unknown activation: once
\* the MLP is called its hook_pre and hook_post both fire.
C17_UnknownActFnRaisesAtConstruction ==
    /\ block.status # "not constructed" /\ ~bcfg.attn_only =>
          /\ block.status = "ValueError" <=> bcfg.act_fn \notin RecognizedActFns
          /\ block.status = "ok" <=> bcfg.act_fn \in RecognizedActFns
          /\ block.status = "ValueError" => ~block.constructed /\ ~bres.called
          /\ block.status = "ok" =>
                /\ block.mlp.status = "ok"
                /\ "act_fn" \in block.mlp.attrs
                /\ bcfg.act_fn = "solu_ln" => "hook_mid" \in block.mlp.attrs
    /\ bres.called =>
          /\ bres.res.status # "ValueError"
          /\ Occurrences(bres.res.trace, "mlp") = 1 =>
                /\ bcfg.act_fn \in RecognizedActFns
                /\ Occurrences(bres.res.trace, "hook_pre") = 1
                /\ Occurrences(bres.res.trace, "hook_post") = 1
                /\ bres.res.status = "ok"

\* The constructor has raised ValueError for the selector "tanh".
C17_Witness ==
    /\ bcfg.act_fn = "tanh" /\ ~bcfg.attn_only
    /\ block.status = "ValueError"
    /\ ~block.constructed

\* ------------------------------------------------------------------ C18

\* The multiplier of head h of n_heads, (2^(-8/n_heads))^h with h counted
\* from 1, in units of 2^-8.
AlibiMultiplier(n_heads, h) == 2 ^ (8 - (8 * h) \div n_heads)

\* C18: create_alibi_bias(n_heads, n_ctx)[h][q][k] is multiplier_h times
\* min(k - q, 0) with multiplier_h > 0: zero on and above the diagonal and,
\* for a fixed head and query, strictly smaller the farther the key lies
\* behind the query; create_alibi_bias(2, 4) is the docstring's tensor (its
\* entries -0.0625 and -0.0039 being 16 and 1 units of 2^-8).
C18_AlibiBiasIsMultiplierTimesDistance ==
    bias_call.called =>
        LET b == bias_call.alibi_bias
            H == 1..bias_call.n_heads
            P == 1..bias_call.n_ctx
        IN  /\ DOMAIN b = H
            /\ \A h \in H :
                  /\ AlibiMultiplier(bias_call.n_heads, h) > 0
                  /\ \A q \in P, k \in P :
                        /\ b[h][q][k] =
                             AlibiMultiplier(bias_call.n_heads, h) * Min(k - q, 0)
                        /\ k >= q => b[h][q][k] = 0
                        /\ k < q => b[h][q][k] < 0
                  /\ \A q \in P, k1 \in P, k2 \in P :
                        k1 < k2 /\ k2 <= q => b[h][q][k1] < b[h][q][k2]
            /\ bias_call.n_heads = 2 /\ bias_call.n_ctx = 4 =>
                  b = << << <<0, 0, 0, 0>>, <<-16, 0, 0, 0>>,
                           <<-32, -16, 0, 0>>, <<-48, -32, -16, 0>> >>,
                        << <<0, 0, 0, 0>>, <<-1, 0, 0, 0>>,
                           <<-2, -1, 0, 0>>, <<-3, -2, -1, 0>> >> >>
            /\ bias_call.n_heads = 1 /\ bias_call.n_ctx = 3 =>
                  b[1] = << <<0, 0, 0>>, <<-1, 0, 0>>, <<-2, -1, 0>> >>

\* create_alibi_bias(2, 4) has been called, as in the docstring.
C18_Witness ==
    /\ bias_call.called
    /\ bias_call.n_heads = 2 /\ bias_call.n_ctx = 4
    /\ bias_call.alibi_bias[1][4][1] = -48
    /\ bias_call.alibi_bias[2][4][1] = -3

\* ------------------------------------------------------------------ C19

\* C19: the first get_cached_alibi(key_ctx) call on a freshly constructed
\* ALiBi attention module, made directly or by the first forward pass,
\* creates a bias of key size key_ctx, stores it and returns it, and the
\* forward pass returns.
C19_FirstGetCachedAlibiCreatesBias ==
    get_call.called /\ get_call.first /\ get_call.before = attention_init =>
        /\ get_call.status = "ok"
        /\ Len(get_call.alibi) = get_call.key_ctx
        /\ attn.cached_alibi = AlibiBias(get_call.key_ctx)
        /\ last.called => last.res.status = "ok"

\* ------------------------------------------------------------------ C20

\* C20: after any sequence of get_cached_alibi calls on one instance the last
\* call returned a bias of key size at least the key_ctx it asked for, the
\* cached size is the largest key_ctx asked for so far and not smaller than
\* before the call, and the call replaced the cached bias exactly when none
\* was set or key_ctx exceeded its size.
C20_CachedAlibiGrowsOnlyWhenNeeded ==
    get_call.called =>
        /\ get_call.status = "ok"
        /\ Len(get_call.alibi) >= get_call.key_ctx
        /\ attn.cached_alibi.state = "bias"
        /\ attn.cached_alibi.size = get_call.requested
        /\ attn.cached_alibi.size >= get_call.before.cached_alibi.size
        /\ attn.cached_alibi # get_call.before.cached_alibi <=>
              \/ get_call.before.cached_alibi.state # "bias"
              \/ get_call.key_ctx > get_call.before.cached_alibi.size

\* ------------------------------------------------------------------ C21

\* The passes that have read the stored length / that append has returned to.
HasOffset(pc) == pc \notin {"idle", "called"}
HasReturned(pc) == pc \in {"returned", "done"}

\* C21: on a frozen entry shared by interleaved passes, every pass reads the
\* frozen history length as its offset, gets back the frozen history followed
\* by its own new keys and values, passes the length assertion, and the
\* stored history stays what it was when the entry was frozen.
C21_FrozenEntrySharedSafely ==
    shared.initial.frozen =>
        /\ shared.entry = shared.initial
        /\ \A p \in Passes :
             /\ HasOffset(passes[p].pc) =>
                    passes[p].kv_cache_pos_offset = Len(shared.initial.past_keys)
             /\ HasReturned(passes[p].pc) =>
                    /\ passes[p].updated_keys =
                         shared.initial.past_keys \o passes[p].new_keys
                    /\ passes[p].updated_values =
                         shared.initial.past_values \o passes[p].new_values
             /\ passes[p].pc = "done" => passes[p].status = "ok"

\* Two passes over a frozen one-position history ran through each other's
\* append and both finished.
C21_Witness ==
    /\ shared.initial.frozen
    /\ shared.overlapped
    /\ Len(shared.initial.past_keys) = 1
    /\ \A p \in Passes : passes[p].pc = "done"

\* ------------------------------------------------------------------ C26

\* What the stored history would be had the passes run one after the other,
\* in either order.
SerialHistories ==
    {<<shared.initial.past_keys \o passes[p].new_keys \o passes[q].new_keys,
       shared.initial.past_values \o passes[p].new_values \o passes[q].new_values>> :
        <<p, q>> \in {<<1, 2>>, <<2, 1>>}}

\* A pass failed the length assertion.
LengthCheckFailed == \E p \in Passes : passes[p].status = "AssertionError"

\* Both passes are done and the stored history is not a serial one.
HistoryNotSerial ==
    /\ \A p \in Passes : passes[p].pc = "done"
    /\ <<shared.entry.past_keys, shared.entry.past_values>> \notin SerialHistories

\* C26: a failed length assertion or a stored history that is no serial
\* concatenation arises on an unfrozen entry exactly through interleaving:
\* such a state is reachable (the witness), and only when one pass ran
\* between another's read of the stored length and the end of its store.
C26_InterleavingCorruptsUnfrozenEntry ==
    ~shared.initial.frozen /\ (LengthCheckFailed \/ HistoryNotSerial)
        => shared.overlapped

\* Two interleaved passes on an unfrozen entry: one failed the length
\* assertion and the stored keys and values are no serial concatenation.
C26_Witness ==
    /\ ~shared.initial.frozen
    /\ LengthCheckFailed
    /\ HistoryNotSerial

\* ------------------------------------------------------------------ C22

\* The index into the original tensor that position j of the indexed tensor
\* comes from: the int items of idx where they stand, the components of j in
\* the remaining dimensions, in order.
SourceIndex(dims, idx, j) ==
    LET RECURSIVE fill(_, _)
        fill(d, rest) ==
            IF d > Len(dims) THEN <<>>
            ELSE IF d <= Len(idx) /\ idx[d][1] = "int"
                 THEN <<idx[d][2]>> \o fill(d + 1, rest)
                 ELSE <<Head(rest)>> \o fill(d + 1, Tail(rest))
    IN  fill(1, j)

\* The int items of idx that are past the end of their dimension.
OutOfRange(dims, idx) ==
    {d \in 1..Len(idx) : idx[d][1] = "int" /\ idx[d][2] >= dims[d]}

\* C22: indexing OV, QK or any FactoredMatrix with ints and slices over the
\* leading dimensions fails with IndexError iff an int is out of range, and
\* otherwise returns a FactoredMatrix whose left and right factor are the
\* original factors under that same index; OV[k] is head k of W_V and W_O and
\* QK[k] is head k of W_Q and the transposed W_K.
C22_IndexingIndexesBothFactors ==
    fm_call.called =>
        LET fm == fm_call.fm
            idx == fm_call.idx
            res == fm_call.res
        IN
        /\ res.status = "IndexError" <=> OutOfRange(fm.A.dims, idx) # {}
        /\ res.status = "ok" =>
             /\ \A j \in DOMAIN res.fm.A.at :
                    res.fm.A.at[j] = fm.A.at[SourceIndex(fm.A.dims, idx, j)]
             /\ \A j \in DOMAIN res.fm.B.at :
                    res.fm.B.at[j] = fm.B.at[SourceIndex(fm.B.dims, idx, j)]
             /\ Len(res.fm.A.dims) = Len(fm.A.dims)
                    - Cardinality({d \in 1..Len(idx) : idx[d][1] = "int"})
             /\ res.fm.B.dims = res.fm.A.dims
             /\ \A k \in 0..(fm_call.n_heads - 1) :
                    idx = <<IntItem(k)>> =>
                        /\ fm_call.view = "OV" =>
                             /\ res.fm.A.at[<<>>] = <<"W_V", FALSE, k>>
                             /\ res.fm.B.at[<<>>] = <<"W_O", FALSE, k>>
                        /\ fm_call.view = "QK" =>
                             /\ res.fm.A.at[<<>>] = <<"W_Q", FALSE, k>>
                             /\ res.fm.B.at[<<>>] = <<"W_K", TRUE, k>>

\* OV[1] of a two-head Attention was taken.
C22_Witness ==
    /\ fm_call.called
    /\ fm_call.view = "OV"
    /\ fm_call.n_heads = 2
    /\ fm_call.idx = <<IntItem(1)>>
    /\ fm_call.res.status = "ok"

\* ------------------------------------------------------------------ C23

\* The channel that channel c (1-based, among the rotated ones) is paired
\* with, and the frequency index of the pair, under the cfg's convention.
Partner(cfg, c) ==
    IF cfg.neox
    THEN (IF c <= cfg.rotary_dim \div 2 THEN c + cfg.rotary_dim \div 2
          ELSE c - cfg.rotary_dim \div 2)
    ELSE (IF c % 2 = 1 THEN c + 1 ELSE c - 1)

\* C23: rotating a position's channels with the angles of a table row and
\* then with the negated angles gives the channels back; rotate_every_two
\* applied twice negates; and the two channels of every pair have the same
\* sin and cos in every table row, under both conventions.
C23_RotaryRoundTrip ==
    rot_call.kind = "round trip" =>
        LET x_rot == SubSeq(rot_call.x, 1, rcfg.rotary_dim)
            tables == calculate_sin_cos_rotary(rcfg)
        IN
        /\ rot_call.back = rot_call.x
        /\ rotate_every_two(rcfg, rotate_every_two(rcfg, x_rot))
             = [c \in 1..rcfg.rotary_dim |-> -x_rot[c]]
        /\ \A c \in 1..rcfg.rotary_dim :
             /\ tables.sin[rot_call.pos + 1][c]
                  = tables.sin[rot_call.pos + 1][Partner(rcfg, c)]
             /\ tables.cos[rot_call.pos + 1][c]
                  = tables.cos[rot_call.pos + 1][Partner(rcfg, c)]

\* A round trip at a position whose angles are not zero, with both
\* frequencies in use and the NeoX pairing, that changed the channels on the
\* way.
C23_Witness ==
    /\ rot_call.kind = "round trip"
    /\ rcfg.neox
    /\ rcfg.rotary_dim = 4
    /\ rot_call.pos = 1
    /\ rot_call.once # rot_call.x

\* ------------------------------------------------------------------ C24

\* One position's channels turned by the angles of absolute position p
\* (0-based), pair by pair: the pair (lo, hi) of frequency index d becomes
\* (lo cos - hi sin, hi cos + lo sin); the channels past rotary_dim stay.
Turned(cfg, x, p) ==
    [c \in 1..DHead |->
        IF c > cfg.rotary_dim THEN x[c]
        ELSE LET other == Partner(cfg, c)
                 lo == IF c < other THEN c ELSE other
                 d == IF cfg.neox THEN lo - 1 ELSE (lo - 1) \div 2
                 t == p * AngleStep(d)
             IN  IF c = lo THEN x[c] * Cos4(t) - x[other] * Sin4(t)
                 ELSE x[c] * Cos4(t) + x[other] * Sin4(t)]

\* C24: with cache offset o and no padding mask, query row a is rotated by
\* the angles of absolute position o + a, key column b of the whole
\* cached-plus-new key tensor by those of position b, and the channels from
\* rotary_dim on come back unchanged.
C24_RotaryUsesAbsolutePositions ==
    rot_call.kind = "forward" =>
        LET f == rot_call.fwd
            o == f.kv_cache_pos_offset
        IN
        /\ \A a \in 1..Len(f.q) :
             /\ f.q[a] = Turned(rcfg, rot_call.q_in[a], o + a - 1)
             /\ \A c \in (rcfg.rotary_dim + 1)..DHead :
                    f.q[a][c] = rot_call.q_in[a][c]
        /\ Len(f.k) = o + Len(f.q)
        /\ \A b \in 1..Len(f.k) :
             /\ f.k[b] = Turned(rcfg, KeyAt(b - 1), b - 1)
             /\ \A c \in (rcfg.rotary_dim + 1)..DHead :
                    f.k[b][c] = KeyAt(b - 1)[c]

\* One new position behind two cached ones, half of the channels rotated.
C24_Witness ==
    /\ rot_call.kind = "forward"
    /\ rot_call.fwd.kv_cache_pos_offset = 2
    /\ Len(rot_call.fwd.q) = 1
    /\ rcfg.rotary_dim = 2
    /\ rot_call.fwd.q[1] # rot_call.q_in[1]

\* ------------------------------------------------------------------ C25

\* C25: an ALiBi forward call that keeps the length contract, with any cache
\* offset o, returns, and the bias it added to the score of the query at
\* absolute position o + a and a key position j at or before it is the head's
\* multiplier times (j - (o + a)), as in a pass without a cache (the bias is
\* in units of the multiplier here).
C25_AlibiBiasUsesAbsolutePositions ==
    /\ last.called
    /\ acfg.positional_embedding_type = "alibi"
    /\ Len(last.res.q) + last.res.kv_cache_pos_offset = Len(last.res.k)
    => /\ last.res.status = "ok"
       /\ \A a \in 1..Len(last.res.q) :
            \A j \in 1..(last.res.kv_cache_pos_offset + a) :
                last.res.alibi[a][j] = j - (last.res.kv_cache_pos_offset + a)

\* ------------------------------------------------------------------ C28

\* C28: a causal forward call with an unfrozen cache entry whose query length
\* plus offset differs from its key length fails, with the length assertion
\* unless the ALiBi step raised first, and only after the append: the entry
\* holds the offset positions it held plus the keys and values of the call.
C28_AppendPrecedesLengthCheck ==
    /\ last.called
    /\ last.use_cache
    /\ ~kv.frozen
    /\ acfg.attention_dir = "causal"
    /\ last.query_ctx + last.res.kv_cache_pos_offset
         # last.res.kv_cache_pos_offset + last.key_ctx
    => LET o == last.res.kv_cache_pos_offset
           stored == [p \in 1..(o + last.key_ctx) |-> TokAt(p)]
       IN  /\ last.res.status # "ok"
           /\ acfg.positional_embedding_type # "alibi"
                => last.res.status = "AssertionError"
           /\ kv.past_keys = Projected(stored)
           /\ kv.past_values = stored
           /\ Len(kv.past_keys) > o

\* The assertion fired in a call that found one position in the entry and
\* left two.
C28_Witness ==
    /\ last.called
    /\ last.use_cache
    /\ last.res.status = "AssertionError"
    /\ last.res.kv_cache_pos_offset = 1
    /\ Len(kv.past_keys) = 2

\* ------------------------------------------------------------------ C27

\* What an observer of the given kind leaves of a tensor with content x.
Observed(kind, x) ==
    CASE kind = "replace" -> <<"replaced">>
      [] kind = "in place" -> <<"edited">> \o x
      [] kind = "in place, one head" -> <<"edited head">> \o x

\* C27: in split-QKV mode an observer at hook_q_input, hook_k_input or
\* hook_v_input that replaces its tensor or modifies it in place, wholly or
\* for one head, changes that attention input only (and, modifying one head,
\* that head only): the other two inputs are what they are without the
\* observer, and the residual read for the residual sum is resid_pre.
C27_SplitInputsAreSeparateCopies ==
    /\ obs.called
    /\ bcfg.use_split_qkv_input
    /\ obs.res.status = "ok"
    /\ obs.observer.hook \in {"hook_q_input", "hook_k_input", "hook_v_input"}
    => LET plain == add_head_dimension(obs.resid_pre)
           seen(hook) == IF obs.observer.hook = hook
                         THEN Observed(obs.observer.kind, plain) ELSE plain
       IN  /\ obs.res.query_input = seen("hook_q_input")
           /\ obs.res.key_input = seen("hook_k_input")
           /\ obs.res.value_input = seen("hook_v_input")
           /\ obs.res.attn_out = attn_module(norm(bcfg, "ln1", obs.res.query_input),
                                             norm(bcfg, "ln1", obs.res.key_input),
                                             norm(bcfg, "ln1", obs.res.value_input))
           /\ obs.res.resid_post =
                IF bcfg.attn_only
                THEN plus(obs.resid_pre, obs.res.attn_out)
                ELSE plus(plus(obs.resid_pre, obs.res.attn_out), obs.res.mlp_out)

\* An observer modified one head of the key input in place in split-QKV
\* mode, and the call returned.
C27_Witness ==
    /\ obs.called
    /\ bcfg.use_split_qkv_input
    /\ ~bcfg.use_attn_in
    /\ obs.res.status = "ok"
    /\ obs.observer = [hook |-> "hook_k_input", kind |-> "in place, one head"]
    /\ obs.res.key_input # obs.res.query_input

\* ------------------------------------------------------------------ C30

\* C30: with use_hook_mlp_in, an observer at hook_mlp_in that replaces its
\* tensor or modifies it in place changes the feed-forward input only: ln2
\* and the MLP are given what the observer left, attention is given what it
\* is given without the observer, and resid_post is the unmodified resid_mid
\* (sequential) or the unmodified resid_pre plus attn_out (parallel) plus
\* mlp_out.
C30_HookMlpInGetsACopy ==
    /\ obs.called
    /\ bcfg.use_hook_mlp_in
    /\ obs.res.status = "ok"
    /\ obs.observer.hook = "hook_mlp_in"
    => LET attn_in == IF bcfg.use_attn_in \/ bcfg.use_split_qkv_input
                      THEN add_head_dimension(obs.resid_pre)
                      ELSE obs.resid_pre
           attn_out == attn_module(norm(bcfg, "ln1", attn_in),
                                   norm(bcfg, "ln1", attn_in),
                                   norm(bcfg, "ln1", attn_in))
           resid_mid == plus(obs.resid_pre, attn_out)
           given == IF bcfg.parallel_attn_mlp THEN obs.resid_pre ELSE resid_mid
       IN  /\ obs.res.attn_out = attn_out
           /\ ~bcfg.attn_only =>
                /\ obs.res.mlp_in = Observed(obs.observer.kind, given)
                /\ obs.res.mlp_out = mlp_module(norm(bcfg, "ln2", obs.res.mlp_in))
                /\ obs.res.resid_post = plus(resid_mid, obs.res.mlp_out)

\* An observer modified the tensor of hook_mlp_in in place in the parallel
\* composition, and the call returned.
C30_Witness ==
    /\ obs.called
    /\ bcfg.use_hook_mlp_in
    /\ bcfg.parallel_attn_mlp
    /\ obs.res.status = "ok"
    /\ obs.observer = [hook |-> "hook_mlp_in", kind |-> "in place"]
    /\ obs.res.mlp_in = <<"edited">> \o obs.resid_pre

\* ------------------------------------------------------------------ C29

\* C29: the entry holds, in order, what left hook_k and hook_v in the calls
\* made while it was not frozen, an observer's replacement included, and
\* none of it rotated; and a rotary call rotates its whole key tensor, the
\* stored positions and the new ones, position b with table row b.
C29_CacheHoldsUnrotatedHookOutputs ==
    /\ kv.past_keys = hk.left_keys
    /\ kv.past_values = hk.left_values
    /\ \A b \in 1..Len(kv.past_keys) : kv.past_keys[b].rot = RotNone
    /\ hk.called =>
        /\ ~hk.before.frozen =>
             /\ kv.past_keys = hk.before.past_keys \o hk.res.left_hook_k
             /\ kv.past_values = hk.before.past_values \o hk.res.left_hook_v
        /\ hk.observer.hook = "hook_k" =>
             \A a \in 1..Len(hk.res.left_hook_k) :
                hk.res.left_hook_k[a].tok
                    = Replaced(TokAt(hk.res.kv_cache_pos_offset + a))
        /\ (acfg.positional_embedding_type = "rotary"
              /\ hk.observer.hook # "hook_rot_k") =>
             /\ Len(hk.res.k) = Len(hk.before.past_keys) + Len(hk.res.left_hook_k)
             /\ \A b \in 1..Len(hk.res.k) :
                    /\ hk.res.k[b].rot = RotRow(b - 1)
                    /\ hk.res.k[b].tok
                         = (hk.before.past_keys \o hk.res.left_hook_k)[b].tok

\* A rotary call found in the entry a key that an observer had replaced at
\* hook_k in an earlier call, and rotated it afresh.
C29_Witness ==
    /\ hk.called
    /\ acfg.positional_embedding_type = "rotary"
    /\ ~hk.before.frozen
    /\ Len(hk.before.past_keys) = 1
    /\ hk.before.past_keys[1].tok = Replaced(TokAt(1))
    /\ hk.observer = NoObserver
    /\ Len(kv.past_keys) = 2
    /\ hk.res.k[1].rot = RotRow(0)
====
